---- MODULE Spec2Model ----
(***************************************************************************)
(* Model of convert-2-gdocs.                                               *)
(*                                                                         *)
(* Spec: blocksToRequests (src/src/generate/blocksToRequests.ts) replays a *)
(* sequence of DocumentBlocks against a running index and emits Google     *)
(* Docs batchUpdate requests.                                              *)
(* SpecParse: parseHtmlToBlocks (src/unnamed/part_000) walks the loaded    *)
(* document and builds the DocumentBlocks.                                 *)
(* SpecConvert: GoogleDocConverter.convertHtml, the entry point.           *)
(* SpecAggregator: TextAggregator (src/unnamed/part_002) under a caller of *)
(* its public methods.                                                     *)
(* SpecRequests: htmlToGDocRequests with aggregators (src/unnamed/part_004)*)
(* and the IndexManager.                                                   *)
(*                                                                         *)
(* An optional field of a DocumentBlock (listInfo?, tableInfo?) is a       *)
(* sequence of length 0 (absent) or 1 (present).                           *)
(***************************************************************************)
EXTENDS Integers, Sequences, FiniteSets, TLC

\* ---------------------------------------------------------------- bounds
MaxBlocks == 3
MaxTextLen == 2

\* ------------------------------------------------------------ input data
RECURSIVE TextOfLen(_)
TextOfLen(n) == IF n = 0 THEN "" ELSE TextOfLen(n - 1) \o "x"

Max(a, b) == IF a >= b THEN a ELSE b
Min(a, b) == IF a <= b THEN a ELSE b

NoInfo == << >>

NormalText == [namedStyleType |-> "NORMAL_TEXT"]
Heading1 == [namedStyleType |-> "HEADING_1"]

\* inline style intervals: one inside the text, one whose end lies past
\* the end of every sample text
BoldHead == [start |-> 0, end |-> 1, textStyle |-> [bold |-> TRUE]]
ItalicTail == [start |-> 1, end |-> MaxTextLen + 1,
               textStyle |-> [italic |-> TRUE, color |-> "red"]]

StyleLists == {<< >>, <<BoldHead>>, <<BoldHead, ItalicTail>>}

Unordered0 == [ordered |-> FALSE, nestingLevel |-> 0]
Ordered0 == [ordered |-> TRUE, nestingLevel |-> 0]
Ordered1 == [ordered |-> TRUE, nestingLevel |-> 1]

Cell(r, c, cs) == [rowIndex |-> r, columnIndex |-> c, rowSpan |-> 1, columnSpan |-> cs]

CellInfos == {Cell(0, 0, 1), Cell(0, 1, 2), Cell(1, 0, 1)}

\* parseHtmlToBlocks sets isListItem and listInfo together
DocumentBlock(t, ps, st, li, ti) ==
    [text |-> t, paragraphStyle |-> ps, inlineStyles |-> st,
     isListItem |-> (li # NoInfo), listInfo |-> li, tableInfo |-> ti]

PlainBlocks ==
    {DocumentBlock(TextOfLen(n), NormalText, << >>, NoInfo, NoInfo) :
        n \in 0..MaxTextLen}
    \cup {DocumentBlock(TextOfLen(1), Heading1, << >>, NoInfo, NoInfo),
          DocumentBlock(TextOfLen(0), NormalText, <<ItalicTail>>, NoInfo, NoInfo),
          DocumentBlock(TextOfLen(MaxTextLen), NormalText, <<ItalicTail>>,
                        NoInfo, NoInfo)}

ListBlocks ==
    {DocumentBlock(TextOfLen(MaxTextLen), NormalText, st, <<Unordered0>>, NoInfo) :
        st \in StyleLists}
    \cup {DocumentBlock(TextOfLen(1), NormalText, << >>, <<Ordered0>>, NoInfo),
          DocumentBlock(TextOfLen(0), NormalText, << >>, <<Ordered1>>, NoInfo)}

\* the last one is a table cell that is also a list item
CellBlocks ==
    {DocumentBlock(TextOfLen(1), NormalText, << >>, NoInfo, <<ti>>) :
        ti \in CellInfos}
    \cup {DocumentBlock(TextOfLen(1), NormalText, << >>, <<Ordered0>>,
                        <<Cell(0, 2, 1)>>)}

Blocks == PlainBlocks \cup ListBlocks \cup CellBlocks

BlockSeqs == UNION {[1..n -> Blocks] : n \in 0..MaxBlocks}

\* ----------------------------------------------------------------- state
VARIABLES
    blocks,            \* the argument of blocksToRequests
    pc,                \* position in the function that is running
    pos,               \* 1-based position of the second forEach in blocks
    requests,          \* the output array
    currentIndex,
    tableStartIndex,   \* NoInfo models null
    tableInitialized,
    maxColumn,
    currentListGroup,
    body,              \* parseHtmlToBlocks: the body element of the loaded document
    childPos,          \* parseHtmlToBlocks: next child of body to process
    parser,            \* parseHtmlToBlocks: blocks, positionTracker, listStack
    html,              \* convertHtml: the argument
    outcome,           \* convertHtml: what the caller gets
    aggregator,        \* TextAggregator: the fields of one instance
    history            \* TextAggregator: what its callers did and got

genVars == <<blocks, pos, requests, currentIndex, tableStartIndex,
             tableInitialized, maxColumn, currentListGroup>>

parseVars == <<body, childPos, parser>>

convertVars == <<html, outcome>>

aggVars == <<aggregator, history>>

vars == <<pc, genVars, parseVars, convertVars, aggVars>>

\* ------------------------------------------------------------- requests
InsertText(t, idx) == [type |-> "insertText", text |-> t, index |-> idx]

UpdateParagraphStyle(s, e, ps, f) ==
    [type |-> "updateParagraphStyle", startIndex |-> s, endIndex |-> e,
     paragraphStyle |-> ps, fields |-> f]

UpdateTextStyle(s, e, ts) ==
    [type |-> "updateTextStyle", startIndex |-> s, endIndex |-> e,
     textStyle |-> ts, fields |-> "*"]

BulletPreset(ordered) ==
    IF ordered THEN "NUMBERED_DECIMAL_ALPHA_ROMAN" ELSE "BULLET_DISC_CIRCLE_SQUARE"

CreateParagraphBullets(g) ==
    [type |-> "createParagraphBullets", startIndex |-> g.startIndex,
     endIndex |-> g.endIndex, bulletPreset |-> BulletPreset(g.ordered)]

InsertTable(idx, r, c) ==
    [type |-> "insertTable", index |-> idx, rows |-> r, columns |-> c]

\* ----------------------------------------------------- blocksToRequests
\* lines 9-16: the pre-pass over ALL blocks of the argument
RECURSIVE MaxColumnOf(_, _)
MaxColumnOf(bs, acc) ==
    IF bs = << >> THEN acc
    ELSE LET block == Head(bs)
             span == IF block.tableInfo # NoInfo
                     THEN (IF block.tableInfo[1].columnSpan = 0 THEN 1
                           ELSE block.tableInfo[1].columnSpan)
                     ELSE 0
             endColumn == IF block.tableInfo # NoInfo
                          THEN block.tableInfo[1].columnIndex + span
                          ELSE 0
         IN  MaxColumnOf(Tail(bs), Max(acc, endColumn))

\* lines 62-75: only these properties of a textStyle are copied
CopiedKeys == {"bold", "italic", "underline", "link", "foregroundColor"}

TransformStyle(ts) == [k \in (DOMAIN ts) \cap CopiedKeys |-> ts[k]]

\* TextStyleRequest without the clamp of line 81
TextStyleRequest_Unclamped(blockStart, textLength, style) ==
    UpdateTextStyle(blockStart + style.start,
                    blockStart + style.end,
                    TransformStyle(style.textStyle))

\* lines 77-86
TextStyleRequest(blockStart, textLength, style) ==
    UpdateTextStyle(blockStart + style.start,
                    blockStart + Min(style.end, textLength),
                    TransformStyle(style.textStyle))

\* lines 59-88
InlineStyleRequests(block, blockStart, textLength) ==
    [k \in 1..Len(block.inlineStyles) |->
        TextStyleRequest(blockStart, textLength, block.inlineStyles[k])]

\* IndentRequest that ignores the nesting level
IndentRequest_Flat(blockStart, textLength, nestingLevel) ==
    UpdateParagraphStyle(blockStart, blockStart + textLength,
        [indentFirstLine |-> [magnitude |-> 0, unit |-> "PT"],
         indentStart |-> [magnitude |-> 36, unit |-> "PT"]],
        "indentFirstLine,indentStart")

\* lines 115-134
IndentRequest(blockStart, textLength, nestingLevel) ==
    UpdateParagraphStyle(blockStart, blockStart + textLength,
        [indentFirstLine |-> [magnitude |-> nestingLevel * 18, unit |-> "PT"],
         indentStart |-> [magnitude |-> (nestingLevel * 18) + 36, unit |-> "PT"]],
        "indentFirstLine,indentStart")

IsListBlock(block) == block.isListItem /\ block.listInfo # NoInfo

\* lines 91-113 and 135-148: the list group after the block
ListGroupAfter(g, block, blockStart, textLength) ==
    IF IsListBlock(block)
    THEN IF ~g.hasItems
         THEN [startIndex |-> blockStart, endIndex |-> blockStart + textLength,
               ordered |-> block.listInfo[1].ordered, hasItems |-> TRUE]
         ELSE IF block.listInfo[1].ordered # g.ordered
         THEN [startIndex |-> blockStart, endIndex |-> blockStart + textLength,
               ordered |-> block.listInfo[1].ordered, hasItems |-> TRUE]
         ELSE [g EXCEPT !.endIndex = blockStart + textLength]
    ELSE IF g.hasItems THEN [g EXCEPT !.hasItems = FALSE] ELSE g

\* ListRequests that closes a group only at a non-list block
ListRequests_NoFlagSplit(g, block, blockStart, textLength) ==
    IF IsListBlock(block)
    THEN <<IndentRequest(blockStart, textLength, block.listInfo[1].nestingLevel)>>
    ELSE IF g.hasItems THEN <<CreateParagraphBullets(g)>> ELSE << >>

\* lines 90-148: the requests of the list section
ListRequests(g, block, blockStart, textLength) ==
    IF IsListBlock(block)
    THEN (IF g.hasItems /\ block.listInfo[1].ordered # g.ordered
          THEN <<CreateParagraphBullets(g)>> ELSE << >>)
         \o <<IndentRequest(blockStart, textLength, block.listInfo[1].nestingLevel)>>
    ELSE IF g.hasItems THEN <<CreateParagraphBullets(g)>> ELSE << >>

\* TableRequests that ignores tableInitialized
TableRequests_EveryCell(block, startIndex, initialized, columns) ==
    IF block.tableInfo # NoInfo
    THEN <<InsertTable(startIndex[1], 1, columns)>>
    ELSE << >>

\* lines 150-162
TableRequests(block, startIndex, initialized, columns) ==
    IF block.tableInfo # NoInfo /\ ~initialized
    THEN <<InsertTable(startIndex[1], 1, columns)>>
    ELSE << >>

\* TextRequests whose paragraph range stops before the separator
TextRequests_NoSeparator(block, blockStart) ==
    <<InsertText(block.text \o "\n", blockStart),
      UpdateParagraphStyle(blockStart, blockStart + Len(block.text),
                           block.paragraphStyle, "*")>>

\* lines 38-56
TextRequests(block, blockStart) ==
    <<InsertText(block.text \o "\n", blockStart),
      UpdateParagraphStyle(blockStart, blockStart + Len(block.text \o "\n"),
                           block.paragraphStyle, "*")>>

\* NextIndex that forgets the separator
NextIndex_NoSeparator(blockStart, fullLength) == blockStart + fullLength - 1

\* line 169
NextIndex(blockStart, fullLength) == blockStart + fullLength

\* lines 33-36
TableStartAt(block, startIndex, blockStart) ==
    IF block.tableInfo # NoInfo /\ startIndex = NoInfo
    THEN <<blockStart>> ELSE startIndex

\* lines 26-170: all requests of one iteration, in push order
BlockRequests(block, blockStart, g, startIndex, initialized, columns) ==
    TextRequests(block, blockStart)
    \o InlineStyleRequests(block, blockStart, Len(block.text))
    \o ListRequests(g, block, blockStart, Len(block.text))
    \o TableRequests(block, TableStartAt(block, startIndex, blockStart),
                     initialized, columns)

Init ==
    /\ blocks \in BlockSeqs
    /\ pc = "prepass"
    /\ pos = 1
    /\ requests = << >>
    /\ currentIndex = 1
    /\ tableStartIndex = NoInfo
    /\ tableInitialized = FALSE
    /\ maxColumn = 0
    /\ currentListGroup = [startIndex |-> 0, endIndex |-> 0,
                           ordered |-> FALSE, hasItems |-> FALSE]
    /\ body = NoInfo /\ childPos = 0 /\ parser = NoInfo
    /\ html = NoInfo /\ outcome = NoInfo
    /\ aggregator = NoInfo /\ history = NoInfo

\* lines 9-16
PrePass ==
    /\ pc = "prepass"
    /\ maxColumn' = MaxColumnOf(blocks, 0)
    /\ pc' = "loop"
    /\ UNCHANGED <<blocks, pos, requests, currentIndex, tableStartIndex,
                   tableInitialized, currentListGroup>>
    /\ UNCHANGED <<parseVars, convertVars, aggVars>>

\* lines 26-170: one iteration of blocks.forEach
ProcessBlock ==
    /\ pc = "loop"
    /\ pos <= Len(blocks)
    /\ LET block == blocks[pos]
           blockStart == currentIndex
           textLength == Len(block.text)
           fullLength == Len(block.text \o "\n")
       IN  /\ requests' = requests \o
                  BlockRequests(block, blockStart, currentListGroup,
                                tableStartIndex, tableInitialized, maxColumn)
           /\ currentListGroup' =
                  ListGroupAfter(currentListGroup, block, blockStart, textLength)
           /\ tableStartIndex' =
                  IF block.tableInfo # NoInfo
                  THEN TableStartAt(block, tableStartIndex, blockStart)
                  ELSE NoInfo
           /\ tableInitialized' = (block.tableInfo # NoInfo)
           /\ currentIndex' = NextIndex(blockStart, fullLength)
    /\ pos' = pos + 1
    /\ UNCHANGED <<blocks, pc, maxColumn>>
    /\ UNCHANGED <<parseVars, convertVars, aggVars>>

\* lines 172-186
Finish ==
    /\ pc = "loop"
    /\ pos > Len(blocks)
    /\ requests' = requests \o
           (IF currentListGroup.hasItems
            THEN <<CreateParagraphBullets(currentListGroup)>> ELSE << >>)
    /\ pc' = "done"
    /\ UNCHANGED <<blocks, pos, currentIndex, tableStartIndex,
                   tableInitialized, maxColumn, currentListGroup>>
    /\ UNCHANGED <<parseVars, convertVars, aggVars>>

Next == PrePass \/ ProcessBlock \/ Finish

Spec == Init /\ [][Next]_vars

TypeOK ==
    /\ pc \in {"prepass", "loop", "done"}
    /\ pos \in 1..(Len(blocks) + 1)
    /\ currentIndex >= 1

\* ------------------------------------------- vocabulary of the properties
\* where block i starts in the inserted text, from the texts alone
RECURSIVE BlockStartOf(_)
BlockStartOf(i) ==
    IF i = 1 THEN 1 ELSE BlockStartOf(i - 1) + Len(blocks[i - 1].text) + 1

PositionsOf(t) == {p \in 1..Len(requests) : requests[p].type = t}

RequestsOf(t) == SelectSeq(requests, LAMBDA r : r.type = t)

\* the block during whose iteration requests[p] was pushed: every iteration
\* pushes its insertText first
Owner(p) == Cardinality({q \in 1..p : requests[q].type = "insertText"})

Done == pc = "done"

\* C1: the output holds exactly one insertText per block, in block order;
\* the i-th carries the text of block i followed by "\n" and is located at
\* 1 + the sum of (len + 1) over the blocks before it
C1_InsertTextsTile ==
    Done =>
        LET ins == RequestsOf("insertText")
        IN  /\ Len(ins) = Len(blocks)
            /\ \A i \in 1..Len(blocks) :
                   /\ ins[i].text = blocks[i].text \o "\n"
                   /\ Len(ins[i].text) = Len(blocks[i].text) + 1
                   /\ ins[i].index = BlockStartOf(i)
                   /\ i < Len(blocks) =>
                          ins[i + 1].index = ins[i].index + Len(ins[i].text)

C1_Witness ==
    /\ Done
    /\ Len(blocks) = 3
    /\ Len(blocks[1].text) = 2
    /\ Len(blocks[2].text) = 0
    /\ RequestsOf("insertText")[3].index = 5

\* C2: no updateTextStyle request ends beyond the text of its block, so
\* none covers the separator at blockStart + len(text)
C2_StyleClamp ==
    /\ \A p \in PositionsOf("updateTextStyle") :
           LET b == Owner(p)
               sep == BlockStartOf(b) + Len(blocks[b].text)
           IN  /\ requests[p].endIndex <= sep
               /\ ~(requests[p].startIndex <= sep /\ sep < requests[p].endIndex)
    /\ \A b \in 1..(pos - 1) :
           Cardinality({p \in PositionsOf("updateTextStyle") : Owner(p) = b})
               = Len(blocks[b].inlineStyles)

C2_Witness ==
    /\ Done
    /\ \E p \in PositionsOf("updateTextStyle") :
           LET b == Owner(p)
           IN  /\ \E k \in 1..Len(blocks[b].inlineStyles) :
                      /\ blocks[b].inlineStyles[k].end > Len(blocks[b].text)
                      /\ requests[p].startIndex
                             = BlockStartOf(b) + blocks[b].inlineStyles[k].start
               /\ requests[p].endIndex = BlockStartOf(b) + Len(blocks[b].text)
               /\ b > 1

\* ---- table regions: maximal runs of consecutive blocks with tableInfo
HasTable(i) == blocks[i].tableInfo # NoInfo

TableRunStarts ==
    {s \in 1..Len(blocks) : HasTable(s) /\ (s = 1 \/ ~HasTable(s - 1))}

\* the cell blocks of the region that starts at block s
RegionCells(s) ==
    {c \in s..Len(blocks) : \A j \in s..c : HasTable(j)}

SetMax(S) == CHOOSE m \in S : \A x \in S : x <= m

RegionColumns(s) ==
    SetMax({blocks[c].tableInfo[1].columnIndex + blocks[c].tableInfo[1].columnSpan :
               c \in RegionCells(s)})

RegionRows(s) ==
    Cardinality({blocks[c].tableInfo[1].rowIndex : c \in RegionCells(s)})

\* the insertTable requests of the region that starts at block s: block
\* starts are pairwise distinct, so the location identifies the region
TablePositions(s) ==
    {p \in PositionsOf("insertTable") : requests[p].index = BlockStartOf(s)}

InsertTextPosition(i) ==
    CHOOSE p \in PositionsOf("insertText") : Owner(p) = i

\* C3: the insertTable request of every table region stands before the
\* insertText request of the region's first cell
C3_TableBeforeFirstCellText ==
    Done =>
        \A s \in TableRunStarts :
            \E p \in TablePositions(s) : p < InsertTextPosition(s)

\* C4: columns of every insertTable is the maximum of columnIndex +
\* columnSpan over the cells of its own region
C4_ColumnsPerRegion ==
    Done =>
        \A s \in TableRunStarts :
            \A p \in TablePositions(s) : requests[p].columns = RegionColumns(s)

\* C5: rows of every insertTable is the number of distinct rowIndex values
\* of its region
C5_RowsPerRegion ==
    Done =>
        \A s \in TableRunStarts :
            \A p \in TablePositions(s) : requests[p].rows = RegionRows(s)

\* C6: one insertTable per maximal run of cell blocks, located at the
\* blockStart of the run's first cell, and no other insertTable
C6_OneTablePerRun ==
    Done =>
        /\ Cardinality(PositionsOf("insertTable")) = Cardinality(TableRunStarts)
        /\ \A s \in TableRunStarts : Cardinality(TablePositions(s)) = 1
        /\ \A p \in PositionsOf("insertTable") :
               \E s \in TableRunStarts :
                   /\ requests[p].index = BlockStartOf(s)
                   /\ Owner(p) = s

\* two runs, the first of two cells, or a run of two cells after a
\* non-cell block
C6_Witness ==
    /\ Done
    /\ Len(blocks) >= 3
    /\ \/ HasTable(1) /\ ~HasTable(2) /\ HasTable(3)
       \/ ~HasTable(1) /\ HasTable(2) /\ HasTable(3)
    /\ Cardinality(PositionsOf("insertTable")) = Cardinality(TableRunStarts)

\* ---- list runs: maximal runs of consecutive list items with one flag
IsListItemAt(i) == blocks[i].isListItem /\ blocks[i].listInfo # NoInfo

OrderedAt(i) == blocks[i].listInfo[1].ordered

ListRunStarts ==
    {s \in 1..Len(blocks) :
        /\ IsListItemAt(s)
        /\ \/ s = 1
           \/ ~IsListItemAt(s - 1)
           \/ OrderedAt(s - 1) # OrderedAt(s)}

ListRunEnd(s) ==
    SetMax({e \in s..Len(blocks) :
               \A j \in s..e : IsListItemAt(j) /\ OrderedAt(j) = OrderedAt(s)})

ExpectedBullets(s) ==
    [type |-> "createParagraphBullets",
     startIndex |-> BlockStartOf(s),
     endIndex |-> BlockStartOf(ListRunEnd(s)) + Len(blocks[ListRunEnd(s)].text),
     bulletPreset |-> IF OrderedAt(s) THEN "NUMBERED_DECIMAL_ALPHA_ROMAN"
                      ELSE "BULLET_DISC_CIRCLE_SQUARE"]

CountOf(t) == Cardinality(PositionsOf(t))

\* C8: a single list-item block with k inline style intervals yields
\* 3 + k requests: one insertText, one updateParagraphStyle, k
\* updateTextStyle, one createParagraphBullets
C8_SingleListItemCount ==
    (Done /\ Len(blocks) = 1 /\ IsListItemAt(1) /\ ~HasTable(1)) =>
        /\ Len(requests) = 3 + Len(blocks[1].inlineStyles)
        /\ CountOf("insertText") = 1
        /\ CountOf("updateParagraphStyle") = 1
        /\ CountOf("updateTextStyle") = Len(blocks[1].inlineStyles)
        /\ CountOf("createParagraphBullets") = 1

\* the requests pushed during the iteration of block b
Owned(b) == {p \in 1..Len(requests) : Owner(p) = b}

IsBareBlock(b) ==
    /\ blocks[b].inlineStyles = << >>
    /\ blocks[b].listInfo = NoInfo
    /\ blocks[b].tableInfo = NoInfo

\* C9: a block without inline styles, list info and table info has exactly
\* two requests, adjacent and in this order: insertText at blockStart, then
\* updateParagraphStyle with its paragraphStyle over
\* [blockStart, blockStart + len(text) + 1).  The only other request that
\* its iteration can push is the createParagraphBullets that closes the
\* list run standing before the block; it is a request of that run.
C9_BareBlockTwoRequests ==
    \A b \in 1..(pos - 1) :
        IsBareBlock(b) =>
            LET q == InsertTextPosition(b)
                closing == {p \in Owned(b) :
                               /\ requests[p].type = "createParagraphBullets"
                               /\ requests[p].endIndex < BlockStartOf(b)}
            IN  /\ Owned(b) \ closing = {q, q + 1}
                /\ requests[q] = [type |-> "insertText",
                                  text |-> blocks[b].text \o "\n",
                                  index |-> BlockStartOf(b)]
                /\ requests[q + 1] =
                       [type |-> "updateParagraphStyle",
                        startIndex |-> BlockStartOf(b),
                        endIndex |-> BlockStartOf(b) + Len(blocks[b].text) + 1,
                        paragraphStyle |-> blocks[b].paragraphStyle,
                        fields |-> "*"]
                /\ (b = 1 \/ ~IsListItemAt(b - 1)) => closing = {}

\* an empty bare block and a heading, after a list run that they close
C9_Witness ==
    /\ Done
    /\ Len(blocks) = 3
    /\ IsListItemAt(1)
    /\ IsBareBlock(2) /\ blocks[2].text = ""
    /\ IsBareBlock(3) /\ blocks[3].paragraphStyle.namedStyleType = "HEADING_1"
    /\ Len(requests) = 8

ExpectedIndent(b) ==
    [type |-> "updateParagraphStyle",
     startIndex |-> BlockStartOf(b),
     endIndex |-> BlockStartOf(b) + Len(blocks[b].text),
     paragraphStyle |->
         [indentFirstLine |->
              [magnitude |-> 18 * blocks[b].listInfo[1].nestingLevel,
               unit |-> "PT"],
          indentStart |->
              [magnitude |-> 18 * blocks[b].listInfo[1].nestingLevel + 36,
               unit |-> "PT"]],
     fields |-> "indentFirstLine,indentStart"]

WhiteSpace == {" ", "\n", "\t"}

Text(d) == [type |-> "text", data |-> d]

Elem(tag, attrs, kids) ==
    [type |-> "tag", tagName |-> tag, attribs |-> attrs, children |-> kids]

NoAttribs == [x \in {} |-> x]

IsElement(node) == node.type = "tag"

RECURSIVE NodeAt(_, _)
NodeAt(root, path) ==
    IF path = << >> THEN root
    ELSE NodeAt(root.children[Head(path)], Tail(path))

\* String.prototype.trimStart, replace(/\s+$/, ''), trim
RECURSIVE TrimStart(_)
TrimStart(str) ==
    IF str # << >> /\ Head(str) \in WhiteSpace THEN TrimStart(Tail(str)) ELSE str

RECURSIVE TrimEnd(_)
TrimEnd(str) ==
    IF str # << >> /\ str[Len(str)] \in WhiteSpace
    THEN TrimEnd(SubSeq(str, 1, Len(str) - 1)) ELSE str

Trim(str) == TrimStart(TrimEnd(str))

\* replace(/\s+/g, ' ')
RECURSIVE CollapseWhiteSpace(_)
CollapseWhiteSpace(str) ==
    IF str = << >> THEN << >>
    ELSE IF Head(str) \in WhiteSpace
    THEN <<" ">> \o CollapseWhiteSpace(TrimStart(str))
    ELSE <<Head(str)>> \o CollapseWhiteSpace(Tail(str))

\* cheerio .text(): the data of all descendant text nodes
RECURSIVE TextOf(_), TextOfFrom(_, _)
TextOf(node) ==
    IF node.type = "text" THEN node.data ELSE TextOfFrom(node, 1)

TextOfFrom(node, k) ==
    IF k > Len(node.children) THEN << >>
    ELSE TextOf(node.children[k]) \o TextOfFrom(node, k + 1)

\* cheerio .find(tag): the descendant elements with the tag, in document
\* order, each with its path
RECURSIVE Find(_, _, _), FindFrom(_, _, _, _)
Find(node, path, tag) == FindFrom(node, path, tag, 1)

FindFrom(node, path, tag, k) ==
    IF k > Len(node.children) THEN << >>
    ELSE LET child == node.children[k]
             childPath == Append(path, k)
         IN  (IF IsElement(child)
              THEN (IF child.tagName = tag
                    THEN <<[node |-> child, path |-> childPath]>> ELSE << >>)
                   \o Find(child, childPath, tag)
              ELSE << >>)
             \o FindFrom(node, path, tag, k + 1)

\* a JavaScript number that may be NaN: <<n>> is n, << >> is NaN
JsNaN == << >>

Digits == <<"0", "1", "2", "3", "4", "5", "6", "7", "8", "9">>

DigitValue(c) == (CHOOSE d \in 1..10 : Digits[d] = c) - 1

IsDigit(c) == \E d \in 1..10 : Digits[d] = c

RECURSIVE ParseDigits(_, _)
ParseDigits(str, acc) ==
    IF str # << >> /\ IsDigit(Head(str))
    THEN ParseDigits(Tail(str), acc * 10 + DigitValue(Head(str)))
    ELSE acc

\* parseInt(str, 10)
ParseInt(str) ==
    LET t == TrimStart(str)
        neg == t # << >> /\ Head(t) = "-"
        u == IF t # << >> /\ Head(t) \in {"-", "+"} THEN Tail(t) ELSE t
    IN  IF u = << >> \/ ~IsDigit(Head(u)) THEN JsNaN
        ELSE <<(IF neg THEN -1 ELSE 1) * ParseDigits(u, 0)>>

\* $cell.attr(name) || '1'
AttrOrOne(element, name) ==
    IF name \in DOMAIN element.attribs /\ element.attribs[name] # << >>
    THEN element.attribs[name] ELSE <<"1">>

\* lines 326-338
GetStyleType(element) ==
    CASE element.tagName = "h1" -> "HEADING_1"
      [] element.tagName = "h2" -> "HEADING_2"
      [] element.tagName = "h3" -> "HEADING_3"
      [] element.tagName = "h4" -> "HEADING_4"
      [] element.tagName = "h5" -> "HEADING_5"
      [] element.tagName = "h6" -> "HEADING_6"
      [] OTHER -> "NORMAL_TEXT"

\* line 380: the colour declarations that the regular expression matches,
\* with the rgbColor they give
RedDeclaration == <<"color:#ff0000;">>

\* lines 340-398: << >> models null
GetInlineStyle(element) ==
    CASE element.tagName \in {"strong", "b"} -> <<[bold |-> TRUE]>>
      [] element.tagName \in {"em", "i"} -> <<[italic |-> TRUE]>>
      [] element.tagName = "u" -> <<[underline |-> TRUE]>>
      [] element.tagName = "a" ->
            IF "href" \in DOMAIN element.attribs /\ element.attribs.href # << >>
            THEN <<[link |-> [url |-> element.attribs.href]]>>
            ELSE << >>
      [] element.tagName = "span" ->
            IF "style" \in DOMAIN element.attribs
               /\ element.attribs.style = RedDeclaration
            THEN <<[foregroundColor |->
                       [color |-> [rgbColor |->
                           [red |-> 1, green |-> 0, blue |-> 0]]]]>>
            ELSE << >>
      [] OTHER -> << >>

\* lines 248-281: text is the text collected so far, positions the
\* entries of textPositions
RECURSIVE CollectText(_, _, _, _), CollectFrom(_, _, _, _, _, _)
CollectText_FromZero(element, path, currentText, positions) ==
    LET r == CollectFrom(element, path, 1, currentText, << >>, positions)
    IN  [text |-> r.text,
         positions |-> Append(r.positions,
                              [path |-> path,
                               start |-> 0,
                               text |-> TrimEnd(r.elementText)])]

CollectText(element, path, currentText, positions) ==
    LET r == CollectFrom(element, path, 1, currentText, << >>, positions)
    IN  [text |-> r.text,
         positions |-> Append(r.positions,
                              [path |-> path,
                               start |-> Len(currentText),
                               text |-> TrimEnd(r.elementText)])]

CollectFrom(element, path, k, text, elementText, positions) ==
    IF k > Len(element.children)
    THEN [text |-> text, elementText |-> elementText, positions |-> positions]
    ELSE LET node == element.children[k]
         IN  IF node.type = "text"
             THEN CollectFrom(element, path, k + 1, text \o node.data,
                              elementText \o node.data, positions)
             ELSE IF node.tagName = "br"
             THEN CollectFrom(element, path, k + 1, text \o <<"\n">>,
                              elementText \o <<"\n">>, positions)
             ELSE LET startPos == Len(text)
                      r == CollectText(node, Append(path, k), text, positions)
                  IN  CollectFrom(element, path, k + 1, r.text,
                                  elementText
                                      \o SubSeq(r.text, startPos + 1, Len(r.text)),
                                  r.positions)

PositionOf(positions, path) ==
    positions[CHOOSE j \in 1..Len(positions) : positions[j].path = path]

\* lines 294-315: the interval of one element
StyleOf_Untrimmed(element, path, positions) ==
    LET style == GetInlineStyle(element)
        position == PositionOf(positions, path)
    IN  IF style # << >> /\ TrimStart(position.text) # << >>
        THEN <<[start |-> position.start,
                end |-> position.start + Len(position.text),
                textStyle |-> style[1]]>>
        ELSE << >>

StyleOf(element, path, positions) ==
    LET style == GetInlineStyle(element)
        position == PositionOf(positions, path)
        rightTrimmed == TrimEnd(position.text)
        leftTrimmedLength == Len(rightTrimmed) - Len(TrimStart(rightTrimmed))
        textContent == TrimStart(rightTrimmed)
    IN  IF style # << >> /\ textContent # << >>
        THEN <<[start |-> position.start + leftTrimmedLength,
                end |-> position.start + leftTrimmedLength + Len(textContent),
                textStyle |-> style[1]]>>
        ELSE << >>

\* lines 286-316: children first, then the element itself
RECURSIVE ProcessStyles(_, _, _), ProcessStylesFrom(_, _, _, _)
ProcessStyles(element, path, positions) ==
    ProcessStylesFrom(element, path, 1, positions)
    \o StyleOf(element, path, positions)

ProcessStylesFrom(element, path, k, positions) ==
    IF k > Len(element.children) THEN << >>
    ELSE (IF IsElement(element.children[k])
          THEN ProcessStyles(element.children[k], Append(path, k), positions)
          ELSE << >>)
         \o ProcessStylesFrom(element, path, k + 1, positions)

\* lines 321-323: Array.prototype.sort is stable
RECURSIVE InsertByStart(_, _)
InsertByStart(sorted, style) ==
    IF sorted = << >> THEN <<style>>
    ELSE IF sorted[Len(sorted)].start <= style.start THEN Append(sorted, style)
    ELSE Append(InsertByStart(SubSeq(sorted, 1, Len(sorted) - 1), style),
                sorted[Len(sorted)])

RECURSIVE SortByStart(_)
SortByStart(styles) ==
    IF styles = << >> THEN << >>
    ELSE InsertByStart(SortByStart(SubSeq(styles, 1, Len(styles) - 1)),
                       styles[Len(styles)])

\* lines 244-324
ProcessTextContent(element) ==
    LET collected == CollectText(element, << >>, << >>, << >>)
    IN  [text |-> collected.text,
         inlineStyles |->
             SortByStart(ProcessStyles(element, << >>, collected.positions))]

\* lines 212-242: listInfo and textOverride are << >> when not given
CreateBlock(element, isList, listInfo, textOverride) ==
    LET content == ProcessTextContent(element)
    IN  [text |-> IF textOverride # << >> THEN textOverride[1] ELSE content.text,
         paragraphStyle |-> [namedStyleType |-> GetStyleType(element)],
         inlineStyles |-> content.inlineStyles,
         isListItem |-> isList,
         listInfo |-> IF isList THEN listInfo ELSE NoInfo,
         tableInfo |-> NoInfo]

\* ---- the state that processNode works on: blocks, positionTracker and
\* listStack of lines 35-46; origins[i] is the path of the node that
\* blocks[i] was created for
NewParser ==
    [blocks |-> << >>, origins |-> << >>,
     positionTracker |-> [k \in {} |-> 0], listStack |-> << >>]

PushBlock(st, block, path) ==
    [st EXCEPT !.blocks = Append(@, block), !.origins = Append(@, path)]

\* lines 48-50: the key is the pair itself
GetPositionKey(ordered, nestingLevel) == <<ordered, nestingLevel>>

\* positionTracker.get(key) || 0
TrackerGet(tracker, key) == IF key \in DOMAIN tracker THEN tracker[key] ELSE 0

TrackerSet(tracker, key, value) ==
    [k \in (DOMAIN tracker) \cup {key} |-> IF k = key THEN value ELSE tracker[k]]

\* lines 58-61 and 196-199
TextBlock(text) ==
    [text |-> text, paragraphStyle |-> [namedStyleType |-> "NORMAL_TEXT"],
     inlineStyles |-> << >>, isListItem |-> FALSE, listInfo |-> NoInfo,
     tableInfo |-> NoInfo]

\* lines 77-85
CellBlock(cell, rowIndex, columnIndex) ==
    [CreateBlock(cell, FALSE, NoInfo, << >>) EXCEPT
        !.tableInfo = <<[rowIndex |-> rowIndex,
                         columnIndex |-> columnIndex,
                         rowSpan |-> ParseInt(AttrOrOne(cell, "rowspan")),
                         columnSpan |-> ParseInt(AttrOrOne(cell, "colspan"))]>>]

\* lines 75-87
RECURSIVE ProcessCells(_, _, _, _)
ProcessCells(cells, k, rowIndex, st) ==
    IF k > Len(cells) THEN st
    ELSE ProcessCells(cells, k + 1, rowIndex,
                      PushBlock(st, CellBlock(cells[k].node, rowIndex, k - 1),
                                cells[k].path))

\* lines 73-89
RECURSIVE ProcessRows(_, _, _)
ProcessRows(rows, r, st) ==
    IF r > Len(rows) THEN st
    ELSE ProcessRows(rows, r + 1,
                     ProcessCells(Find(rows[r].node, rows[r].path, "td"),
                                  1, r - 1, st))

\* lines 143-144: the clone without its ul and ol children
CloneWithoutLists_Keep(element) == element

CloneWithoutLists(element) ==
    [element EXCEPT !.children =
        SelectSeq(element.children,
                  LAMBDA c : ~(IsElement(c) /\ c.tagName \in {"ul", "ol"}))]

\* lines 136-156
ListItemBlock_Raw(element, currentList, position) ==
    CreateBlock(CloneWithoutLists(element), TRUE,
                <<[ordered |-> currentList.ordered,
                   nestingLevel |-> currentList.nestingLevel,
                   position |-> position]>>,
                <<Trim(TextOf(CloneWithoutLists(element)))>>)

ListItemBlock(element, currentList, position) ==
    CreateBlock(CloneWithoutLists(element), TRUE,
                <<[ordered |-> currentList.ordered,
                   nestingLevel |-> currentList.nestingLevel,
                   position |-> position]>>,
                <<Trim(CollapseWhiteSpace(TextOf(CloneWithoutLists(element))))>>)

\* lines 106-121 and 161-174: the new context is pushed and the counter
\* of its key starts again
EnterList_NoReset(st, isOrdered, nestingLevel) ==
    [st EXCEPT
        !.listStack = Append(@, [ordered |-> isOrdered,
                                 nestingLevel |-> nestingLevel,
                                 position |-> 0])]

EnterList(st, isOrdered, nestingLevel) ==
    [st EXCEPT
        !.positionTracker = TrackerSet(@, GetPositionKey(isOrdered, nestingLevel), 0),
        !.listStack = Append(@, [ordered |-> isOrdered,
                                 nestingLevel |-> nestingLevel,
                                 position |-> 0])]

\* lines 129 and 177: listStack.pop()
LeaveList(st) == [st EXCEPT !.listStack = SubSeq(@, 1, Len(@) - 1)]

\* lines 184-187
AppendBreak_First(st) ==
    IF Len(st.blocks) > 0
    THEN [st EXCEPT !.blocks[1].text = @ \o <<"\n">>]
    ELSE st

AppendBreak(st) ==
    IF Len(st.blocks) > 0
    THEN [st EXCEPT !.blocks[Len(st.blocks)].text = @ \o <<"\n">>]
    ELSE st

RECURSIVE ProcessNode(_, _, _, _), ProcessListChildren(_, _, _, _, _),
          ProcessNestedLists(_, _, _, _, _), ProcessContents(_, _, _, _, _)

\* lines 52-204, for one element of $node
ProcessNode(element, path, nestingLevel, st) ==
    IF element.type = "text"
    THEN \* lines 55-64
         IF Trim(element.data) # << >>
         THEN PushBlock(st, TextBlock(Trim(element.data)), path) ELSE st
    ELSE CASE element.tagName = "table" ->
                  ProcessRows(Find(element, path, "tr"), 1, st)
           [] element.tagName \in {"p", "h1", "h2", "h3", "h4", "h5", "h6", "div"} ->
                  PushBlock(st, CreateBlock(element, FALSE, NoInfo, << >>), path)
           [] element.tagName \in {"ul", "ol"} ->
                  \* lines 104-131
                  LeaveList(
                      ProcessListChildren(
                          element, path, 1, nestingLevel,
                          EnterList(st, element.tagName = "ol", nestingLevel)))
           [] element.tagName = "li" ->
                  \* lines 132-181
                  IF st.listStack = << >> THEN st
                  ELSE LET currentList == st.listStack[Len(st.listStack)]
                           positionKey == GetPositionKey(currentList.ordered,
                                                         currentList.nestingLevel)
                           position == TrackerGet(st.positionTracker, positionKey) + 1
                           pushed ==
                               PushBlock(
                                   [st EXCEPT !.positionTracker =
                                       TrackerSet(@, positionKey, position)],
                                   ListItemBlock(element, currentList, position),
                                   path)
                       IN  ProcessNestedLists(element, path, 1, currentList, pushed)
           [] element.tagName = "br" ->
                  \* lines 182-188
                  AppendBreak(st)
           [] OTHER -> ProcessContents(element, path, 1, nestingLevel, st)

\* lines 123-127
ProcessListChildren(element, path, k, nestingLevel, st) ==
    IF k > Len(element.children) THEN st
    ELSE ProcessListChildren(element, path, k + 1, nestingLevel,
             IF IsElement(element.children[k])
             THEN ProcessNode(element.children[k], Append(path, k), nestingLevel, st)
             ELSE st)

\* lines 159-178
ProcessNestedLists(element, path, k, currentList, st) ==
    IF k > Len(element.children) THEN st
    ELSE LET nestedList == element.children[k]
         IN  ProcessNestedLists(element, path, k + 1, currentList,
                 IF IsElement(nestedList) /\ nestedList.tagName \in {"ul", "ol"}
                 THEN LeaveList(
                          ProcessNode(nestedList, Append(path, k),
                                      currentList.nestingLevel + 1,
                                      EnterList(st, nestedList.tagName = "ol",
                                                currentList.nestingLevel + 1)))
                 ELSE st)

\* lines 190-202: one child of the element in the default case
DefaultChild(child, path, nestingLevel, st) ==
    IF IsElement(child) THEN ProcessNode(child, path, nestingLevel, st)
    ELSE IF Trim(child.data) # << >> /\ Len(st.blocks) = 0
    THEN PushBlock(st, TextBlock(Trim(child.data)), path)
    ELSE st

ProcessContents(element, path, k, nestingLevel, st) ==
    IF k > Len(element.children) THEN st
    ELSE ProcessContents(element, path, k + 1, nestingLevel,
             DefaultChild(element.children[k], Append(path, k), nestingLevel, st))

\* lines 33-35 and 400-402
ParseHtmlToBlocks(bodyElement) ==
    ProcessNode(bodyElement, << >>, 0, NewParser).blocks

\* ---- the documents explored: body holds up to MaxTop of these nodes
MaxTop == 3

Attr(name, value) == [x \in {name} |-> value]

Li(kids) == Elem("li", NoAttribs, kids)

Td(attrs, kids) == Elem("td", attrs, kids)

Tr(kids) == Elem("tr", NoAttribs, kids)

\* the HTML parser puts the rows of a table into a tbody
Table(rows) == Elem("table", NoAttribs, <<Elem("tbody", NoAttribs, rows)>>)

BareText == Text(<<"a">>)

PaddedText == Text(<<" ", "b", "\n">>)

BlankText == Text(<<" ">>)

\* <p>a <b> x </b>!</p>
BoldParagraph ==
    Elem("p", NoAttribs,
         <<Text(<<"a", " ">>),
           Elem("b", NoAttribs, <<Text(<<" ", "x", " ">>)>>),
           Text(<<"!">>)>>)

\* <p><i> </i>c<br></p>
BreakParagraph ==
    Elem("p", NoAttribs,
         <<Elem("i", NoAttribs, <<Text(<<" ">>)>>),
           Text(<<"c">>),
           Elem("br", NoAttribs, << >>)>>)

\* <h1><a href="u">t</a></h1>
LinkHeading ==
    Elem("h1", NoAttribs,
         <<Elem("a", Attr("href", <<"u">>), <<Text(<<"t">>)>>)>>)

Break == Elem("br", NoAttribs, << >>)

\* <span>s</span>
Wrapper == Elem("span", NoAttribs, <<Text(<<"s">>)>>)

\* <ul><li>a  c</li><li> <b>x</b></li></ul>
StyledList ==
    Elem("ul", NoAttribs,
         <<Li(<<Text(<<"a", " ", " ", "c">>)>>),
           Li(<<Text(<<" ">>), Elem("b", NoAttribs, <<Text(<<"x">>)>>)>>)>>)

\* <ol><li>a<ul><li>b<ol><li>e</li></ol></li></ul></li><li>c</li></ol>
NestedList ==
    Elem("ol", NoAttribs,
         <<Li(<<Text(<<"a">>),
                Elem("ul", NoAttribs,
                     <<Li(<<Text(<<"b">>),
                            Elem("ol", NoAttribs, <<Li(<<Text(<<"e">>)>>)>>)>>)>>)>>),
           Li(<<Text(<<"c">>)>>)>>)

\* <ul><li>a</li><li>b</li><ul><li>c</li></ul><li>d</li></ul>
ListInList ==
    Elem("ul", NoAttribs,
         <<Li(<<Text(<<"a">>)>>),
           Li(<<Text(<<"b">>)>>),
           Elem("ul", NoAttribs, <<Li(<<Text(<<"c">>)>>)>>),
           Li(<<Text(<<"d">>)>>)>>)

\* <table><tr><td>a</td><td colspan="2">b</td></tr>
\*        <tr><td rowspan="abc"><b>c</b> </td></tr></table>
SpanTable ==
    Table(<<Tr(<<Td(NoAttribs, <<Text(<<"a">>)>>),
                 Td(Attr("colspan", <<"2">>), <<Text(<<"b">>)>>)>>),
            Tr(<<Td(Attr("rowspan", <<"a", "b", "c">>),
                    <<Elem("b", NoAttribs, <<Text(<<"c">>)>>), Text(<<" ">>)>>)>>)>>)

\* <table><tr><td>a<table><tr><td>b</td></tr></table></td></tr></table>
TableInTable ==
    Table(<<Tr(<<Td(NoAttribs,
                    <<Text(<<"a">>),
                      Table(<<Tr(<<Td(NoAttribs, <<Text(<<"b">>)>>)>>)>>)>>)>>)>>)

\* <div> <b> x <i> y<br></i> </b>z</div>
NestedStyles ==
    Elem("div", NoAttribs,
         <<Text(<<" ">>),
           Elem("b", NoAttribs,
                <<Text(<<" ", "x", " ">>),
                  Elem("i", NoAttribs,
                       <<Text(<<" ", "y">>), Elem("br", NoAttribs, << >>)>>),
                  Text(<<" ">>)>>),
           Text(<<"z">>)>>)

TopNodes ==
    {BareText, PaddedText, BlankText, BoldParagraph, BreakParagraph,
     LinkHeading, Break, Wrapper, StyledList, NestedList, ListInList,
     SpanTable, TableInTable, NestedStyles}

\* what the HTML parser gives: character data is one text node up to the
\* next tag, and white space ahead of the first content is not in body
IsDocument(kids) ==
    /\ \A k \in 1..(Len(kids) - 1) : IsElement(kids[k]) \/ IsElement(kids[k + 1])
    /\ (kids # << >> /\ ~IsElement(kids[1])) => Head(kids[1].data) \notin WhiteSpace

Bodies ==
    {Elem("body", NoAttribs, kids) :
        kids \in {c \in UNION {[1..n -> TopNodes] : n \in 0..MaxTop} :
                     IsDocument(c)}}

\* ---- parseHtmlToBlocks as a machine: body is handled by the default
\* case of processNode, one child per step
InitParse ==
    /\ body \in Bodies
    /\ childPos = 0
    /\ parser = NewParser
    /\ pc = "parsing"
    /\ blocks = << >> /\ pos = 1 /\ requests = << >> /\ currentIndex = 1
    /\ tableStartIndex = NoInfo /\ tableInitialized = FALSE /\ maxColumn = 0
    /\ currentListGroup = [startIndex |-> 0, endIndex |-> 0,
                           ordered |-> FALSE, hasItems |-> FALSE]
    /\ html = NoInfo /\ outcome = NoInfo
    /\ aggregator = NoInfo /\ history = NoInfo

\* lines 190-202 for $('body')
ParseChild ==
    /\ pc = "parsing"
    /\ childPos < Len(body.children)
    /\ parser' = DefaultChild(body.children[childPos + 1], <<childPos + 1>>,
                              0, parser)
    /\ childPos' = childPos + 1
    /\ UNCHANGED <<pc, body, genVars, convertVars, aggVars>>

\* line 401: return blocks
ParseDone ==
    /\ pc = "parsing"
    /\ childPos = Len(body.children)
    /\ pc' = "parsed"
    /\ blocks' = parser.blocks
    /\ UNCHANGED <<pos, requests, currentIndex, tableStartIndex,
                   tableInitialized, maxColumn, currentListGroup>>
    /\ UNCHANGED <<parseVars, convertVars, aggVars>>

NextParse == ParseChild \/ ParseDone

SpecParse == InitParse /\ [][NextParse]_vars

Parsed == pc = "parsed"

\* the steps together are the one call of line 400
ParseStepsAgree == Parsed => parser.blocks = ParseHtmlToBlocks(body)

\* ------------------------------ vocabulary of the properties of the parser
Front(path) == SubSeq(path, 1, Len(path) - 1)

Last(path) == path[Len(path)]

IsPrefix(p, q) == Len(p) <= Len(q) /\ SubSeq(q, 1, Len(p)) = p

ParsedBlocks == 1..Len(parser.blocks)

OriginOf(b) == NodeAt(body, parser.origins[b])

ParentOf(b) == NodeAt(body, Front(parser.origins[b]))

BlocksOf(path) == {b \in ParsedBlocks : parser.origins[b] = path}

IsTag(node, tags) == IsElement(node) /\ node.tagName \in tags

BlockTags == {"p", "h1", "h2", "h3", "h4", "h5", "h6", "div"}

ListTags == {"ul", "ol"}

\* how many of the first k - 1 children of the node carry the tag
TagsBefore(node, tag, k) ==
    Cardinality({j \in 1..(k - 1) : IsTag(node.children[j], {tag})})

\* all elements below a node, the node included, with their paths
RECURSIVE Elements(_, _)
Elements(node, path) ==
    IF ~IsElement(node) THEN {}
    ELSE {[node |-> node, path |-> path]}
         \cup UNION {Elements(node.children[k], Append(path, k)) :
                        k \in 1..Len(node.children)}

\* C12: of two sibling lists of one type at one level with a non-list
\* block between them, the second one counts its items from 1 again: its
\* first item has position 1 and every item that directly follows an item
\* has the position of that item plus 1
SeparatedLists(i, k) ==
    /\ i < k
    /\ IsTag(body.children[i], ListTags)
    /\ IsTag(body.children[k], {body.children[i].tagName})
    /\ \E j \in (i + 1)..(k - 1) : IsTag(body.children[j], BlockTags)

IsItemOfSecondList(b) ==
    /\ parser.blocks[b].isListItem
    /\ Len(parser.origins[b]) = 2
    /\ \E i \in 1..Len(body.children) : SeparatedLists(i, parser.origins[b][1])

C13_PositionIsOrdinal ==
    Parsed =>
        \A b \in ParsedBlocks :
            parser.blocks[b].isListItem =>
                parser.blocks[b].listInfo[1].position
                    = 1 + TagsBefore(ParentOf(b), "li", Last(parser.origins[b]))

\* the text of a node as it is read in a block: a line break is a newline
RECURSIVE LineText(_), LineTextFrom(_, _)
LineText(node) ==
    IF node.type = "text" THEN node.data
    ELSE IF node.tagName = "br" THEN <<"\n">>
    ELSE LineTextFrom(node, 1)

LineTextFrom(node, k) ==
    IF k > Len(node.children) THEN << >>
    ELSE LineText(node.children[k]) \o LineTextFrom(node, k + 1)

StyledElements(node) ==
    {e \in Elements(node, << >>) : GetInlineStyle(e.node) # << >>}

IntervalsOf(b) == 1..Len(parser.blocks[b].inlineStyles)

\* C14: in every block each interval lies in the text,
\* 0 <= start < end <= len(text), and covers there the trimmed text of a
\* styled element
C14_IntervalsInFinalText ==
    Parsed =>
        \A b \in ParsedBlocks : \A s \in IntervalsOf(b) :
            LET text == parser.blocks[b].text
                start == parser.blocks[b].inlineStyles[s].start
                end == parser.blocks[b].inlineStyles[s].end
            IN  /\ 0 <= start /\ start < end /\ end <= Len(text)
                /\ \E e \in StyledElements(OriginOf(b)) :
                       SubSeq(text, start + 1, end) = Trim(LineText(e.node))

\* C15: in a block of a p, h1-h6, div or td the first and the last
\* character of every interval are no whitespace, and there are as many
\* intervals as styled elements with a text that is not all whitespace
C15_IntervalsTrimmed ==
    Parsed =>
        \A b \in ParsedBlocks :
            IsTag(OriginOf(b), BlockTags \cup {"td"}) =>
                /\ \A s \in IntervalsOf(b) :
                       LET start == parser.blocks[b].inlineStyles[s].start
                           end == parser.blocks[b].inlineStyles[s].end
                       IN  /\ start < end
                           /\ parser.blocks[b].text[start + 1] \notin WhiteSpace
                           /\ parser.blocks[b].text[end] \notin WhiteSpace
                /\ Len(parser.blocks[b].inlineStyles)
                       = Cardinality({e \in StyledElements(OriginOf(b)) :
                                         Trim(LineText(e.node)) # << >>})

\* one paragraph drops the interval of a blank styled element, another
\* one has an interval that leaves out the blanks around the styled text
C15_Witness ==
    /\ Parsed
    /\ \E b \in ParsedBlocks :
           /\ IsTag(OriginOf(b), BlockTags)
           /\ parser.blocks[b].inlineStyles = << >>
           /\ \E e \in StyledElements(OriginOf(b)) :
                  LineText(e.node) # << >> /\ Trim(LineText(e.node)) = << >>
    /\ \E b \in ParsedBlocks :
           /\ IsTag(OriginOf(b), BlockTags)
           /\ \E e \in StyledElements(OriginOf(b)) :
                  /\ Head(LineText(e.node)) \in WhiteSpace
                  /\ LineText(e.node)[Len(LineText(e.node))] \in WhiteSpace
                  /\ \E s \in IntervalsOf(b) :
                         SubSeq(parser.blocks[b].text,
                                parser.blocks[b].inlineStyles[s].start + 1,
                                parser.blocks[b].inlineStyles[s].end)
                             = Trim(LineText(e.node))

\* C16: every text node that is not blank and stands at the top of the
\* document or in an element that is no block, list or table element gives
\* exactly one block, of style NORMAL_TEXT and with the trimmed text
ContainerTags == BlockTags \cup ListTags \cup {"table", "tr", "td", "li", "br"}

BareTextPaths ==
    {<<k>> : k \in {j \in 1..Len(body.children) :
                       /\ ~IsElement(body.children[j])
                       /\ Trim(body.children[j].data) # << >>}}
    \cup UNION {{<<k, m>> : m \in {j \in 1..Len(body.children[k].children) :
                                     /\ ~IsElement(body.children[k].children[j])
                                     /\ Trim(body.children[k].children[j].data) # << >>}} :
                   k \in {j \in 1..Len(body.children) :
                             /\ IsElement(body.children[j])
                             /\ body.children[j].tagName \notin ContainerTags}}

C16_BareTextBecomesBlock ==
    Parsed =>
        \A path \in BareTextPaths :
            /\ Cardinality(BlocksOf(path)) = 1
            /\ \A b \in BlocksOf(path) :
                   /\ parser.blocks[b].paragraphStyle.namedStyleType = "NORMAL_TEXT"
                   /\ parser.blocks[b].text = Trim(NodeAt(body, path).data)

\* C17: a list item with lists among its children gives a block whose
\* text is made of its other children alone; every item of those lists gives
\* a later block, one level deeper and with the ordered flag of its own
\* list; all blocks from inside the item come before the blocks of the
\* item's later siblings
HasNestedLists(li) ==
    \E k \in 1..Len(li.children) : IsTag(li.children[k], ListTags)

RECURSIVE OwnText(_, _)
OwnText(li, k) ==
    IF k > Len(li.children) THEN << >>
    ELSE (IF IsTag(li.children[k], ListTags) THEN << >>
          ELSE TextOf(li.children[k]))
         \o OwnText(li, k + 1)

IsParentItem(b) ==
    parser.blocks[b].isListItem /\ HasNestedLists(OriginOf(b))

C17_NestedItemsFollowParent ==
    Parsed =>
        \A b \in ParsedBlocks :
            IsParentItem(b) =>
                LET path == parser.origins[b]
                    li == OriginOf(b)
                    level == parser.blocks[b].listInfo[1].nestingLevel
                IN  /\ parser.blocks[b].text
                           = Trim(CollapseWhiteSpace(OwnText(li, 1)))
                    /\ \A k \in 1..Len(li.children) :
                           IsTag(li.children[k], ListTags) =>
                               \A m \in 1..Len(li.children[k].children) :
                                   IsTag(li.children[k].children[m], {"li"}) =>
                                       \E c \in BlocksOf(path \o <<k, m>>) :
                                           /\ c > b
                                           /\ parser.blocks[c].isListItem
                                           /\ parser.blocks[c].listInfo[1].nestingLevel
                                                  = level + 1
                                           /\ parser.blocks[c].listInfo[1].ordered
                                                  = (li.children[k].tagName = "ol")
                    /\ \A c, d \in ParsedBlocks :
                           (/\ IsPrefix(path, parser.origins[c])
                            /\ Front(parser.origins[d]) = Front(path)
                            /\ Last(parser.origins[d]) > Last(path))
                               => c < d

\* an item, its nested item right behind it, and its next sibling later
C17_Witness ==
    /\ Parsed
    /\ \E b \in ParsedBlocks :
           /\ IsParentItem(b)
           /\ b + 1 \in ParsedBlocks
           /\ IsPrefix(parser.origins[b], parser.origins[b + 1])
           /\ parser.blocks[b + 1].listInfo[1].nestingLevel
                  = parser.blocks[b].listInfo[1].nestingLevel + 1
           /\ parser.blocks[b + 1].listInfo[1].ordered
                  # parser.blocks[b].listInfo[1].ordered
           /\ \E d \in ParsedBlocks :
                  /\ d > b + 1
                  /\ Front(parser.origins[d]) = Front(parser.origins[b])
                  /\ Last(parser.origins[d]) > Last(parser.origins[b])

\* C18: rowSpan and columnSpan of every cell block are integers >= 1: the
\* number in the rowspan or colspan attribute, and 1 when the attribute is
\* absent or no number
IsNumeric(str) == str # << >> /\ \A i \in 1..Len(str) : IsDigit(str[i])

ExpectedSpan(cell, name) ==
    IF name \in DOMAIN cell.attribs /\ IsNumeric(cell.attribs[name])
    THEN ParseDigits(cell.attribs[name], 0) ELSE 1

C18_SpansAtLeastOne ==
    Parsed =>
        \A b \in ParsedBlocks :
            parser.blocks[b].tableInfo # NoInfo =>
                LET info == parser.blocks[b].tableInfo[1]
                IN  /\ info.rowSpan = <<ExpectedSpan(OriginOf(b), "rowspan")>>
                    /\ info.columnSpan = <<ExpectedSpan(OriginOf(b), "colspan")>>
                    /\ info.rowSpan[1] >= 1
                    /\ info.columnSpan[1] >= 1

\* C19: every cell of every table gives exactly one block; rowIndex is the
\* number of rows before the cell's row, columnIndex the number of cells
\* before it in its row, and the blocks stand in document order
RECURSIVE PathBefore(_, _)
PathBefore(p, q) ==
    IF p = << >> THEN q # << >>
    ELSE IF q = << >> THEN FALSE
    ELSE IF Head(p) # Head(q) THEN Head(p) < Head(q)
    ELSE PathBefore(Tail(p), Tail(q))

CellsOf(node) == {e \in Elements(node, << >>) : e.node.tagName = "td"}

C19_OneBlockPerCell ==
    Parsed =>
        /\ \A e \in CellsOf(body) :
               /\ Cardinality(BlocksOf(e.path)) = 1
               /\ \A b \in BlocksOf(e.path) :
                      /\ parser.blocks[b].tableInfo # NoInfo
                      /\ parser.blocks[b].tableInfo[1].rowIndex
                             = TagsBefore(NodeAt(body, Front(Front(e.path))), "tr",
                                          Last(Front(e.path)))
                      /\ parser.blocks[b].tableInfo[1].columnIndex
                             = TagsBefore(NodeAt(body, Front(e.path)), "td",
                                          Last(e.path))
        /\ \A b, c \in ParsedBlocks :
               (/\ parser.blocks[b].tableInfo # NoInfo
                /\ parser.blocks[c].tableInfo # NoInfo
                /\ PathBefore(parser.origins[b], parser.origins[c]))
                   => b < c

\* C20 as stated: no block text ends with the newline
EndsWithNewline(text) == text # << >> /\ text[Len(text)] = "\n"

C20_NoTrailingSeparator ==
    Parsed =>
        \A b \in ParsedBlocks : ~EndsWithNewline(parser.blocks[b].text)

\* a br element that stands after the block and before the next block
BreakFollows(b) ==
    \E k \in 1..Len(body.children) :
        /\ IsTag(body.children[k], {"br"})
        /\ parser.origins[b][1] < k
        /\ (b = Len(parser.blocks) \/ parser.origins[b + 1][1] > k)

\* C20 amended: the text of a block ends with a newline exactly when a br
\* element follows the block before the next block, or the block is made
\* from a p, h1-h6, div or td whose content ends with a br element or a
\* newline; the texts of list items and of bare text are trimmed
C20_TrailingNewlineOnlyFromBreak ==
    Parsed =>
        \A b \in ParsedBlocks :
            EndsWithNewline(parser.blocks[b].text)
                <=> \/ BreakFollows(b)
                    \/ /\ IsTag(OriginOf(b), BlockTags \cup {"td"})
                       /\ EndsWithNewline(LineText(OriginOf(b)))

\* a paragraph that ends with a br, and a block followed by a br
C20_Witness ==
    /\ Parsed
    /\ \E b \in ParsedBlocks :
           /\ ~BreakFollows(b)
           /\ EndsWithNewline(LineText(OriginOf(b)))
           /\ EndsWithNewline(parser.blocks[b].text)
    /\ \E b \in ParsedBlocks :
           /\ BreakFollows(b)
           /\ ~EndsWithNewline(LineText(OriginOf(b)))
           /\ EndsWithNewline(parser.blocks[b].text)

\* ======================================================================
\* GoogleDocConverter.convertHtml: the version over parseHtmlToBlocks and
\* blocksToRequests (src/unnamed/part_003) and the version over
\* htmlToGDocRequests (src/src/GoogleDocConverter.ts).
\* ======================================================================
\* a sequence of characters as the string that blocksToRequests measures
RECURSIVE Str(_)
Str(chars) == IF chars = << >> THEN "" ELSE Head(chars) \o Str(Tail(chars))

\* blocksToRequests reads a span only in 'columnSpan || 1', where NaN
\* counts like 0
Falsy(number) == IF number = JsNaN THEN 0 ELSE number[1]

\* the block of the parser as blocksToRequests reads it
GeneratorBlock(block) ==
    [block EXCEPT
        !.text = Str(@),
        !.tableInfo = IF @ = NoInfo THEN NoInfo
                      ELSE <<[@[1] EXCEPT !.rowSpan = Falsy(@),
                                          !.columnSpan = Falsy(@)]>>]

\* blocksToRequests.ts lines 26-170 for the blocks from position k on; st
\* holds requests, currentIndex, tableStartIndex, tableInitialized and
\* currentListGroup
RECURSIVE GenerateFrom(_, _, _, _)
GenerateFrom(bs, k, columns, st) ==
    IF k > Len(bs) THEN st
    ELSE LET block == bs[k]
             blockStart == st.currentIndex
             textLength == Len(block.text)
             fullLength == Len(block.text \o "\n")
         IN  GenerateFrom(bs, k + 1, columns,
                 [requests |-> st.requests \o
                      BlockRequests(block, blockStart, st.currentListGroup,
                                    st.tableStartIndex, st.tableInitialized,
                                    columns),
                  currentListGroup |->
                      ListGroupAfter(st.currentListGroup, block, blockStart,
                                     textLength),
                  tableStartIndex |->
                      IF block.tableInfo # NoInfo
                      THEN TableStartAt(block, st.tableStartIndex, blockStart)
                      ELSE NoInfo,
                  tableInitialized |-> (block.tableInfo # NoInfo),
                  currentIndex |-> NextIndex(blockStart, fullLength)])

\* blocksToRequests.ts lines 3-186
BlocksToRequests(bs) ==
    LET end == GenerateFrom(bs, 1, MaxColumnOf(bs, 0),
                   [requests |-> << >>, currentIndex |-> 1,
                    tableStartIndex |-> NoInfo, tableInitialized |-> FALSE,
                    currentListGroup |->
                        [startIndex |-> 0, endIndex |-> 0,
                         ordered |-> FALSE, hasItems |-> FALSE]])
    IN  end.requests \o
            (IF end.currentListGroup.hasItems
             THEN <<CreateParagraphBullets(end.currentListGroup)>> ELSE << >>)

\* the steps of Spec together are the one call
GenerateStepsAgree == (pc = "done") => requests = BlocksToRequests(blocks)

\* ---- the HTML text of a document
TagChars(name) ==
    CASE name = "p" -> <<"p">>
      [] name = "b" -> <<"b">>
      [] name = "i" -> <<"i">>
      [] name = "a" -> <<"a">>
      [] name = "h1" -> <<"h", "1">>
      [] name = "div" -> <<"d", "i", "v">>
      [] name = "br" -> <<"b", "r">>
      [] name = "pre" -> <<"p", "r", "e">>
      [] name = "ul" -> <<"u", "l">>
      [] name = "ol" -> <<"o", "l">>
      [] name = "li" -> <<"l", "i">>
      [] name = "tr" -> <<"t", "r">>
      [] name = "td" -> <<"t", "d">>
      [] name = "span" -> <<"s", "p", "a", "n">>
      [] name = "body" -> <<"b", "o", "d", "y">>
      [] name = "href" -> <<"h", "r", "e", "f">>
      [] name = "table" -> <<"t", "a", "b", "l", "e">>
      [] name = "tbody" -> <<"t", "b", "o", "d", "y">>
      [] name = "colspan" -> <<"c", "o", "l", "s", "p", "a", "n">>
      [] name = "rowspan" -> <<"r", "o", "w", "s", "p", "a", "n">>

RECURSIVE AttribChars(_, _)
AttribChars(attribs, names) ==
    IF names = {} THEN << >>
    ELSE LET name == CHOOSE n \in names : TRUE
         IN  <<" ">> \o TagChars(name) \o <<"=", "\"">> \o attribs[name]
             \o <<"\"">> \o AttribChars(attribs, names \ {name})

RECURSIVE OuterHtml(_), InnerHtml(_, _)
OuterHtml(node) ==
    IF node.type = "text" THEN node.data
    ELSE <<"<">> \o TagChars(node.tagName)
         \o AttribChars(node.attribs, DOMAIN node.attribs) \o <<">">>
         \o (IF node.tagName = "br" THEN << >>
             ELSE InnerHtml(node, 1) \o <<"<", "/">> \o TagChars(node.tagName)
                  \o <<">">>)

InnerHtml(node, k) ==
    IF k > Len(node.children) THEN << >>
    ELSE OuterHtml(node.children[k]) \o InnerHtml(node, k + 1)

\* ---- the arguments: values that are no strings, blank strings, and the
\* HTML text of the documents; body is what cheerio.load makes of a string
NonStrings == {[type |-> "number"], [type |-> "undefined"], [type |-> "object"]}

String(chars) == [type |-> "string", value |-> chars]

BlankStrings == {String(<< >>), String(<<" ">>), String(<<"\n", "\t">>)}

EmptyBody == Elem("body", NoAttribs, << >>)

\* ---- what the caller gets
Return(result) == [kind |-> "return", requests |-> result]

Throw(class, message) == [kind |-> "throw", error |-> class, message |-> message]

\* what is thrown inside the try block: nothing, an Error, another value
Faults == {"none", "Error", "other"}

InitConvert ==
    /\ \/ html \in NonStrings /\ body = NoInfo
       \/ html \in BlankStrings /\ body = EmptyBody
       \/ body \in Bodies /\ html = String(InnerHtml(body, 1))
    /\ outcome = NoInfo
    /\ pc = "call"
    /\ childPos = 0 /\ parser = NoInfo
    /\ blocks = << >> /\ pos = 1 /\ requests = << >> /\ currentIndex = 1
    /\ tableStartIndex = NoInfo /\ tableInitialized = FALSE /\ maxColumn = 0
    /\ currentListGroup = [startIndex |-> 0, endIndex |-> 0,
                           ordered |-> FALSE, hasItems |-> FALSE]
    /\ aggregator = NoInfo /\ history = NoInfo

\* part_003 lines 15-33
ConvertHtml ==
    /\ pc = "call"
    /\ \E fault \in Faults :
           outcome' =
               IF html.type # "string"
               THEN Throw("ValidationError", "HTML input must be a string")
               ELSE IF Trim(html.value) = << >>
               THEN Throw("ValidationError", "HTML input cannot be empty")
               ELSE IF fault = "none"
               THEN Return(BlocksToRequests(
                        [b \in 1..Len(ParseHtmlToBlocks(body)) |->
                            GeneratorBlock(ParseHtmlToBlocks(body)[b])]))
               ELSE IF fault = "Error"
               THEN Throw("ValidationError", "Failed to convert HTML: message")
               ELSE Throw("ValidationError", "Failed to convert HTML: Unknown error")
    /\ pc' = "returned"
    /\ UNCHANGED <<html, genVars, parseVars, aggVars>>

\* htmlToGDoc.ts lines 32-36: the requests that the walk over the document
\* pushes are left open
WalkRequests(document) == [walkOf |-> document]

\* htmlToGDoc.ts lines 19-42
HtmlToGDocRequests(string, document, fault) ==
    IF string.value = << >> THEN Return(<< >>)
    ELSE IF fault = "none" THEN Return(WalkRequests(document))
    ELSE IF fault = "Error"
    THEN Throw("ConversionError",
               "Failed to convert HTML to Google Docs requests: message")
    ELSE Throw("ConversionError",
               "Failed to convert HTML to Google Docs requests: Unknown error")

\* src/src/GoogleDocConverter.ts lines 26-32
ConvertHtmlWithConfig ==
    /\ pc = "call"
    /\ \E fault \in Faults :
           outcome' =
               IF html.type # "string"
               THEN Throw("ValidationError", "HTML input must be a string")
               ELSE HtmlToGDocRequests(html, body, fault)
    /\ pc' = "returned by config"
    /\ UNCHANGED <<html, genVars, parseVars, aggVars>>

NextConvert == ConvertHtml \/ ConvertHtmlWithConfig

SpecConvert == InitConvert /\ [][NextConvert]_vars

\* C11: convertHtml throws a ValidationError for every argument that is no
\* string and for every string that is empty or blank, and whatever it
\* throws is a ValidationError
IsInvalidInput == html.type # "string" \/ Trim(html.value) = << >>

C11_InvalidInputFailsFast ==
    outcome # NoInfo =>
        /\ IsInvalidInput =>
               outcome.kind = "throw" /\ outcome.error = "ValidationError"
        /\ outcome.kind = "throw" => outcome.error = "ValidationError"

\* ----------------------------------------------- white space in the text
Blanks == WhiteSpace \ {"\n"}

HasAdjacentBlanks(text) ==
    \E i \in 1..(Len(text) - 1) : text[i] \in Blanks /\ text[i + 1] \in Blanks

\* C21 as stated: in the block of a p, h1-h6, div, td or li no two blanks
\* of the source text stand next to each other
C21_WhiteSpaceCollapsed ==
    Parsed =>
        \A b \in ParsedBlocks :
            IsTag(OriginOf(b), BlockTags \cup {"td", "li"}) =>
                ~HasAdjacentBlanks(parser.blocks[b].text)

\* the br elements after the block and before the next block
FollowingBreaks(b) ==
    Cardinality({k \in 1..Len(body.children) :
                    /\ IsTag(body.children[k], {"br"})
                    /\ parser.origins[b][1] < k
                    /\ (b = Len(parser.blocks) \/ parser.origins[b + 1][1] > k)})

RECURSIVE NewLines(_)
NewLines(n) == IF n = 0 THEN << >> ELSE <<"\n">> \o NewLines(n - 1)

\* C21 amended: only the text of a list item is normalised: its white
\* space runs are single spaces and it is trimmed; the text of a p, h1-h6,
\* div or td is the text of its text nodes as written, with a newline for
\* each br element; a br element after a block adds a newline to it
C21_OnlyListItemsCollapsed ==
    Parsed =>
        \A b \in ParsedBlocks :
            /\ IsTag(OriginOf(b), {"li"}) =>
                   parser.blocks[b].text
                       = Trim(CollapseWhiteSpace(OwnText(OriginOf(b), 1)))
                         \o NewLines(FollowingBreaks(b))
            /\ IsTag(OriginOf(b), BlockTags \cup {"td"}) =>
                   parser.blocks[b].text
                       = LineText(OriginOf(b)) \o NewLines(FollowingBreaks(b))

\* a list item whose run of blanks became one space, and a paragraph that
\* kept two blanks side by side
C21_Witness ==
    /\ Parsed
    /\ \E b \in ParsedBlocks :
           /\ IsTag(OriginOf(b), {"li"})
           /\ HasAdjacentBlanks(OwnText(OriginOf(b), 1))
           /\ ~HasAdjacentBlanks(parser.blocks[b].text)
    /\ \E b \in ParsedBlocks :
           /\ IsTag(OriginOf(b), BlockTags)
           /\ HasAdjacentBlanks(parser.blocks[b].text)

\* ------------------------------------------- ranges of blocksToRequests
\* C24: the range of every updateTextStyle lies in the text of its block:
\* blockStart <= startIndex <= endIndex <= blockStart + len(text)
C24_TextStyleRangeInBlock ==
    \A p \in PositionsOf("updateTextStyle") :
        LET b == Owner(p)
        IN  /\ BlockStartOf(b) <= requests[p].startIndex
            /\ requests[p].startIndex <= requests[p].endIndex
            /\ requests[p].endIndex <= BlockStartOf(b) + Len(blocks[b].text)

\* the total length of the texts inserted by the requests before position p
RECURSIVE InsertedBefore(_)
InsertedBefore(p) ==
    IF p <= 1 THEN 0
    ELSE InsertedBefore(p - 1)
         + (IF requests[p - 1].type = "insertText"
            THEN Len(requests[p - 1].text) ELSE 0)

RangeTypes == {"updateParagraphStyle", "updateTextStyle", "createParagraphBullets"}

\* C25: every request with a range has
\* 1 <= startIndex <= endIndex <= 1 + the length of the text inserted by
\* the requests before it
C25_RangesInInsertedText ==
    \A p \in 1..Len(requests) :
        requests[p].type \in RangeTypes =>
            /\ 1 <= requests[p].startIndex
            /\ requests[p].startIndex <= requests[p].endIndex
            /\ requests[p].endIndex <= 1 + InsertedBefore(p)

\* ------------------------------------------------ nested styled elements
\* a styled element with text inside another one, both below the node
NestedPairs(node) ==
    {pair \in StyledElements(node) \X StyledElements(node) :
        /\ pair[1].path # pair[2].path
        /\ IsPrefix(pair[1].path, pair[2].path)
        /\ Trim(LineText(pair[1].node)) # << >>
        /\ Trim(LineText(pair[2].node)) # << >>}

\* interval s of block b is the interval of the styled element e
IsIntervalOf(b, s, e) ==
    LET interval == parser.blocks[b].inlineStyles[s]
    IN  /\ interval.textStyle = GetInlineStyle(e.node)[1]
        /\ 0 <= interval.start /\ interval.start < interval.end
        /\ interval.end <= Len(parser.blocks[b].text)
        /\ SubSeq(parser.blocks[b].text, interval.start + 1, interval.end)
               = Trim(LineText(e.node))

MaxCalls == 3

\* the texts a caller appends: plain, with a space inside, a line break,
\* blank, padded with white space, empty
Fragments ==
    { <<"a">>, <<"a", " ", "b">>, <<"\n">>, <<" ">>, <<" ", "b", "\t">>, << >> }

\* the styles a caller registers
Styles == { [bold |-> TRUE], [bold |-> FALSE, italic |-> TRUE] }

StartIndexes == {0, 5}

\* lines 23-33: the constructor
NewAggregator(startIndex, preserveWhitespace) ==
    [buffer |-> << >>,
     startIndex |-> startIndex,
     formattingRanges |-> << >>,
     preserveWhitespace |-> preserveWhitespace,
     lastCharWasNewline |-> FALSE,
     isBlockStart |-> TRUE,
     needsBlockBoundary |-> FALSE,
     pendingSpace |-> FALSE]

\* the part of str before its first "\n"
RECURSIVE Segment(_)
Segment(str) ==
    IF str = << >> \/ Head(str) = "\n" THEN << >>
    ELSE <<Head(str)>> \o Segment(Tail(str))

\* lines 42-51: split(/(\n)/), trim and collapse every segment, drop the
\* empty ones, join
RECURSIVE Normalize(_)
Normalize(text) ==
    LET seg == Segment(text)
        rest == SubSeq(text, Len(seg) + 1, Len(text))
    IN  CollapseWhiteSpace(Trim(seg))
        \o (IF rest = << >> THEN << >>
            ELSE <<"\n">> \o Normalize(Tail(rest)))

\* lines 39-51
Processed(agg, text) ==
    IF agg.preserveWhitespace THEN text ELSE Normalize(text)

EndsWith(str, char) == str # << >> /\ str[Len(str)] = char

StartsWith(str, char) == str # << >> /\ Head(str) = char

\* lines 55-60
AddBoundary(agg) ==
    IF agg.needsBlockBoundary /\ ~agg.isBlockStart
    THEN [agg EXCEPT !.buffer = @ \o <<"\n">>,
                     !.lastCharWasNewline = TRUE,
                     !.needsBlockBoundary = FALSE,
                     !.pendingSpace = FALSE]
    ELSE agg

\* lines 63-73: does append put a space in front of processedText
NeedsSpace(agg, processedText) ==
    /\ ~agg.isBlockStart
    /\ ~agg.lastCharWasNewline
    /\ ~StartsWith(processedText, "\n")
    /\ ~agg.preserveWhitespace
    /\ ~EndsWith(agg.buffer, " ")
    /\ ~StartsWith(processedText, " ")
    /\ agg.pendingSpace

\* lines 35-83: append (Append is the operator of Sequences)
AppendText(agg, text) ==
    IF text = << >> THEN agg
    ELSE LET processedText == Processed(agg, text)
             bounded == AddBoundary(agg)
             space == IF NeedsSpace(bounded, processedText)
                      THEN <<" ">> ELSE << >>
             newline == EndsWith(processedText, "\n")
         IN  IF processedText = << >> THEN agg
             ELSE [bounded EXCEPT
                      !.buffer = @ \o space \o processedText,
                      !.lastCharWasNewline = newline,
                      !.isBlockStart = FALSE,
                      !.pendingSpace = /\ ~newline
                                       /\ ~agg.preserveWhitespace
                                       /\ ~EndsWith(processedText, " ")]

\* lines 88-92
MarkBlockBoundary(agg) ==
    IF ~agg.lastCharWasNewline
    THEN [agg EXCEPT !.needsBlockBoundary = TRUE] ELSE agg

\* lines 97-127
GetBuffer(agg) == agg.buffer

GetLength(agg) == Len(agg.buffer)

GetStartIndex(agg) == agg.startIndex

GetEndIndex(agg) == agg.startIndex + Len(agg.buffer)

GetFormattingRanges(agg) == agg.formattingRanges

\* String.prototype.substring
Substring(str, from, to) ==
    LET a == Min(Max(from, 0), Len(str))
        b == Min(Max(to, 0), Len(str))
    IN  SubSeq(str, Min(a, b) + 1, Max(a, b))

\* lines 138, 142: the matches of /(?<=[^\s])\s(?=[^\s])/g in str
AddedSpaces(str) ==
    Cardinality({i \in 2..(Len(str) - 1) :
                    /\ str[i] \in WhiteSpace
                    /\ str[i - 1] \notin WhiteSpace
                    /\ str[i + 1] \notin WhiteSpace})

\* { ...a, ...b }
Spread(a, b) ==
    [k \in DOMAIN a \cup DOMAIN b |-> IF k \in DOMAIN b THEN b[k] ELSE a[k]]

\* lines 150-152
Overlaps(range, actualStartOffset, actualEndOffset) ==
    /\ range.startIndex <= actualEndOffset
    /\ range.endIndex >= actualStartOffset

\* lines 156-159: overlappingRanges.reduce(..., style)
RECURSIVE MergedStyle(_, _)
MergedStyle(overlappingRanges, acc) ==
    IF overlappingRanges = << >> THEN acc
    ELSE MergedStyle(Tail(overlappingRanges),
                     Spread(acc, Head(overlappingRanges).style))

\* lines 135-181
AddFormattingRange(agg, startOffset, endOffset, style) ==
    LET addedSpaces == AddedSpaces(Substring(agg.buffer, 0, startOffset))
        rangeSpaces == AddedSpaces(Substring(agg.buffer, startOffset, endOffset))
        actualStartOffset == startOffset + addedSpaces
        actualEndOffset == actualStartOffset + (endOffset - startOffset)
                           + rangeSpaces
        Hit(range) == Overlaps(range, actualStartOffset, actualEndOffset)
        Miss(range) == ~Hit(range)
        overlappingRanges == SelectSeq(agg.formattingRanges, Hit)
    IN  [agg EXCEPT !.formattingRanges =
            SelectSeq(@, Miss)
            \o << [startIndex |-> actualStartOffset,
                   endIndex |-> actualEndOffset,
                   style |-> MergedStyle(overlappingRanges, style)] >>]

\* flush that leaves the start index where it was
Flush_KeepStart(agg) ==
    [agg EXCEPT !.buffer = << >>,
                !.formattingRanges = << >>,
                !.lastCharWasNewline = FALSE,
                !.isBlockStart = TRUE,
                !.needsBlockBoundary = FALSE,
                !.pendingSpace = FALSE]

\* lines 187-197: the aggregator that flush leaves behind
Flush(agg) ==
    [agg EXCEPT !.startIndex = @ + Len(agg.buffer),
                !.buffer = << >>,
                !.formattingRanges = << >>,
                !.lastCharWasNewline = FALSE,
                !.isBlockStart = TRUE,
                !.needsBlockBoundary = FALSE,
                !.pendingSpace = FALSE]

\* line 188, 196: what flush returns
FlushContent(agg) == agg.buffer

\* replace(/\n+$/, '')
RECURSIVE TrimNewlines(_)
TrimNewlines(str) ==
    IF EndsWith(str, "\n") THEN TrimNewlines(SubSeq(str, 1, Len(str) - 1))
    ELSE str

\* lines 202-206
TrimTrailingNewlines(agg) ==
    [agg EXCEPT !.buffer = TrimNewlines(@),
                !.lastCharWasNewline = FALSE,
                !.pendingSpace = ~agg.preserveWhitespace]

\* ---- the caller.  history records the start index given to the
\* constructor, the calls made (each with the aggregator it was made on),
\* the total length and the last value returned by flush, and the buffer
\* positions at which append itself put a separating space.
Call(op, args, agg) == [op |-> op, args |-> args, on |-> agg]

InitAggregator ==
    /\ \E startIndex \in StartIndexes, preserveWhitespace \in BOOLEAN :
           /\ aggregator = NewAggregator(startIndex, preserveWhitespace)
           /\ history = [startIndex |-> startIndex,
                         calls |-> << >>,
                         flushed |-> 0,
                         returned |-> NoInfo,
                         separators |-> {}]
    /\ pc = "aggregating"
    /\ blocks = << >> /\ pos = 1 /\ requests = << >> /\ currentIndex = 1
    /\ tableStartIndex = NoInfo /\ tableInitialized = FALSE /\ maxColumn = 0
    /\ currentListGroup = [startIndex |-> 0, endIndex |-> 0,
                           ordered |-> FALSE, hasItems |-> FALSE]
    /\ body = NoInfo /\ childPos = 0 /\ parser = NoInfo
    /\ html = NoInfo /\ outcome = NoInfo

MayCall == pc = "aggregating" /\ Len(history.calls) < MaxCalls

DoAppend ==
    /\ MayCall
    /\ \E text \in Fragments :
           /\ aggregator' = AppendText(aggregator, text)
           /\ history' =
                  [history EXCEPT
                      !.calls = Append(@, Call("append", <<text>>, aggregator)),
                      !.separators =
                          IF /\ text # << >>
                             /\ Processed(aggregator, text) # << >>
                             /\ NeedsSpace(AddBoundary(aggregator),
                                           Processed(aggregator, text))
                          THEN @ \cup {Len(AddBoundary(aggregator).buffer) + 1}
                          ELSE @]
    /\ UNCHANGED <<pc, genVars, parseVars, convertVars>>

DoMarkBlockBoundary ==
    /\ MayCall
    /\ aggregator' = MarkBlockBoundary(aggregator)
    /\ history' = [history EXCEPT
                      !.calls = Append(@, Call("markBlockBoundary", << >>,
                                               aggregator))]
    /\ UNCHANGED <<pc, genVars, parseVars, convertVars>>

DoAddFormattingRange ==
    /\ MayCall
    /\ \E startOffset \in 0..GetLength(aggregator) :
       \E endOffset \in startOffset..GetLength(aggregator) :
       \E style \in Styles :
           /\ aggregator' = AddFormattingRange(aggregator, startOffset,
                                               endOffset, style)
           /\ history' =
                  [history EXCEPT
                      !.calls = Append(@, Call("addFormattingRange",
                                        <<startOffset, endOffset, style>>,
                                        aggregator))]
    /\ UNCHANGED <<pc, genVars, parseVars, convertVars>>

DoFlush ==
    /\ MayCall
    /\ aggregator' = Flush(aggregator)
    /\ history' = [history EXCEPT
                      !.calls = Append(@, Call("flush", << >>, aggregator)),
                      !.flushed = @ + Len(FlushContent(aggregator)),
                      !.returned = <<FlushContent(aggregator)>>,
                      !.separators = {}]
    /\ UNCHANGED <<pc, genVars, parseVars, convertVars>>

DoTrimTrailingNewlines ==
    /\ MayCall
    /\ aggregator' = TrimTrailingNewlines(aggregator)
    /\ history' = [history EXCEPT
                      !.calls = Append(@, Call("trimTrailingNewlines", << >>,
                                               aggregator))]
    /\ UNCHANGED <<pc, genVars, parseVars, convertVars>>

NextAggregator ==
    \/ DoAppend
    \/ DoMarkBlockBoundary
    \/ DoAddFormattingRange
    \/ DoFlush
    \/ DoTrimTrailingNewlines

SpecAggregator == InitAggregator /\ [][NextAggregator]_vars

\* ---- vocabulary of the aggregator claims
Aggregating == pc = "aggregating"

Called == Aggregating /\ history.calls # << >>

LastCall == Last(history.calls)

Flushed == Called /\ LastCall.op = "flush"

OnlyCalls(ops) == \A c \in 1..Len(history.calls) : history.calls[c].op \in ops

\* C22: getStartIndex is the start index given to the constructor plus the
\* total length of what flush has returned so far, getEndIndex is
\* getStartIndex + getLength, and a flush returns the buffer as it was and
\* leaves the buffer empty, the length 0 and no formatting ranges.
C22_FlushAdvancesStart ==
    Aggregating =>
        /\ GetStartIndex(aggregator) = history.startIndex + history.flushed
        /\ GetEndIndex(aggregator)
               = GetStartIndex(aggregator) + GetLength(aggregator)
        /\ Flushed =>
               /\ history.returned = <<GetBuffer(LastCall.on)>>
               /\ GetBuffer(aggregator) = << >>
               /\ GetLength(aggregator) = 0
               /\ GetFormattingRanges(aggregator) = << >>

\* a flush of text with a formatting range, by an aggregator that did not
\* start at 0
C22_Witness ==
    /\ Flushed
    /\ history.startIndex > 0
    /\ GetBuffer(LastCall.on) # << >>
    /\ GetFormattingRanges(LastCall.on) # << >>
    /\ GetStartIndex(aggregator) > history.startIndex

\* C23 (first part): without preserveWhitespace every space of the buffer
\* stands between two characters that are no white space.
SpacesAreSeparators(buffer) ==
    \A i \in 1..Len(buffer) :
        buffer[i] = " " =>
            /\ 1 < i /\ i < Len(buffer)
            /\ buffer[i - 1] \notin WhiteSpace
            /\ buffer[i + 1] \notin WhiteSpace

\* the last two calls appended fragments with text, no newline in them and
\* no block boundary between them
ConsecutiveFragments ==
    /\ Aggregating
    /\ Len(history.calls) >= 2
    /\ LET first == history.calls[Len(history.calls) - 1]
           second == LastCall
       IN  /\ first.op = "append" /\ second.op = "append"
           /\ Normalize(first.args[1]) # << >>
           /\ Normalize(second.args[1]) # << >>
           /\ "\n" \notin {first.args[1][i] : i \in 1..Len(first.args[1])}
           /\ "\n" \notin {second.args[1][i] : i \in 1..Len(second.args[1])}
           /\ ~first.on.needsBlockBoundary

\* C23 (second part): exactly one space separates the normalized texts of
\* two fragments appended one after the other.
OneSpaceBetweenFragments ==
    ConsecutiveFragments =>
        LET first == history.calls[Len(history.calls) - 1]
            second == LastCall
        IN  /\ GetBuffer(second.on)
                   = SubSeq(GetBuffer(second.on), 1,
                            Len(GetBuffer(second.on))
                            - Len(Normalize(first.args[1])))
                     \o Normalize(first.args[1])
            /\ GetBuffer(aggregator)
                   = GetBuffer(second.on) \o <<" ">>
                     \o Normalize(second.args[1])

\* C23: for an aggregator without preserveWhitespace, after any calls of
\* append, markBlockBoundary, trimTrailingNewlines and flush, every space
\* of the buffer stands between two non-whitespace characters, and exactly
\* one space separates the normalized texts of consecutive fragments.
C23_SpacesOnlyBetweenWords ==
    (/\ Aggregating
     /\ ~aggregator.preserveWhitespace
     /\ OnlyCalls({"append", "markBlockBoundary", "trimTrailingNewlines",
                   "flush"}))
    => /\ SpacesAreSeparators(GetBuffer(aggregator))
       /\ OneSpaceBetweenFragments

\* ---- addFormattingRange
Registered == Called /\ LastCall.op = "addFormattingRange"

\* two ranges of buffer offsets that have a character in common
SharesCharacter(range, other) ==
    /\ Max(range.startIndex, other.startIndex)
           < Min(range.endIndex, other.endIndex)

\* the key-wise union of the styles of the ranges, in the order of their
\* registration, the later registration's value kept for a key in both
RECURSIVE LaterWins(_, _)
LaterWins(ranges, style) ==
    IF ranges = << >> THEN style
    ELSE Spread(Head(ranges).style, LaterWins(Tail(ranges), style))

\* C27: a range that overlaps earlier ranges replaces them by one entry
\* whose style is the key-wise union of their styles, the later
\* registration's value kept on conflict; a range that shares no character
\* with a registered range is added and the existing entries stay.
C27_MergeLaterWins ==
    Registered =>
        LET before == GetFormattingRanges(LastCall.on)
            after == GetFormattingRanges(aggregator)
            entry == Last(after)
            Hit(range) == SharesCharacter(range, entry)
            Miss(range) == ~SharesCharacter(range, entry)
        IN  IF SelectSeq(before, Hit) # << >>
            THEN /\ after = SelectSeq(before, Miss) \o <<entry>>
                 /\ entry.style
                        = LaterWins(SelectSeq(before, Hit), LastCall.args[3])
            ELSE /\ after = before \o <<entry>>
                 /\ entry.style = LastCall.args[3]

\* C28: the stored startIndex is localStart plus the number of separator
\* spaces that append itself put into the buffer before localStart; spaces
\* that came with a fragment are not counted.
C28_StartShiftedBySeparators ==
    Registered =>
        Last(GetFormattingRanges(aggregator)).startIndex
            = LastCall.args[1]
              + Cardinality({p \in history.separators : p <= LastCall.args[1]})

\* C29: when append, addFormattingRange and flush are the only calls and
\* every addFormattingRange has 0 <= startOffset <= endOffset <= getLength(),
\* every stored range has 0 <= startIndex <= endIndex <= getLength().
C29_RangesInsideBuffer ==
    (Aggregating /\ OnlyCalls({"append", "addFormattingRange", "flush"}))
    => \A r \in 1..Len(GetFormattingRanges(aggregator)) :
           LET range == GetFormattingRanges(aggregator)[r]
           IN  /\ 0 <= range.startIndex
               /\ range.startIndex <= range.endIndex
               /\ range.endIndex <= GetLength(aggregator)

\* ======================================================================
\* htmlToGDocRequests with aggregators (src/unnamed/part_004), the
\* utilities of src/src/utils/htmlParser.ts and the IndexManager of
\* src/src/utils/indexManager.ts.  SpecRequests: one call.  A walker is
\* the requests array, the current index of the IndexManager and the
\* aggregator that processNode was given as parentAggregator.
\* ======================================================================
NoStyle == [x \in {} |-> x]

\* <div><ul><li>a</li></ul>b</div>
ListInBlock ==
    Elem("div", NoAttribs,
         <<Elem("ul", NoAttribs, <<Li(<<Text(<<"a">>)>>)>>), Text(<<"b">>)>>)

\* <pre>a  b</pre>
Preformatted == Elem("pre", NoAttribs, <<Text(<<"a", " ", " ", "b">>)>>)

WalkNodes ==
    {BareText, PaddedText, BlankText, BoldParagraph, Break, Wrapper,
     StyledList, NestedList, SpanTable, NestedStyles, ListInBlock,
     Preformatted}

WalkBodies ==
    {Elem("body", NoAttribs, kids) :
        kids \in {c \in UNION {[1..n -> WalkNodes] : n \in 0..MaxTop} :
                     IsDocument(c)}}

\* ConverterConfig: absent, or with default styles
Configs ==
    { [defaultTextStyle |-> NoStyle, defaultParagraphStyle |-> NoStyle],
      [defaultTextStyle |-> [underline |-> TRUE],
       defaultParagraphStyle |-> [alignment |-> "CENTER"]] }

\* indexManager.ts lines 10-13, 30-34
NewIndexManager == 1

Advance(index, text) == index + Len(text)

\* htmlParser.ts lines 61-85, for the declarations of the documents
ParseStyleAttribute(styleAttr) ==
    IF styleAttr = RedDeclaration
    THEN [foregroundColor |->
             [color |-> [rgbColor |-> [red |-> 1, green |-> 0, blue |-> 0]]]]
    ELSE NoStyle

\* htmlParser.ts lines 31-54
ExtractTextSegment(node) ==
    [text |-> TextOf(node),
     style |->
        IF ~IsElement(node) THEN NoStyle
        ELSE Spread(
                 Spread(Spread(IF node.tagName \in {"strong", "b"}
                               THEN [bold |-> TRUE] ELSE NoStyle,
                               IF node.tagName \in {"em", "i"}
                               THEN [italic |-> TRUE] ELSE NoStyle),
                        IF node.tagName = "u"
                        THEN [underline |-> TRUE] ELSE NoStyle),
                 IF "style" \in DOMAIN node.attribs
                    /\ node.attribs.style # << >>
                 THEN ParseStyleAttribute(node.attribs.style) ELSE NoStyle)]

\* htmlParser.ts lines 110-130: nestingLevel, the lists among the ancestors
NestingLevel(ancestors) ==
    Cardinality({a \in 1..Len(ancestors) : ancestors[a] \in ListTags})

\* htmlParser.ts lines 138-188, for elements without text-align
GetParagraphStyle(node) == [namedStyleType |-> GetStyleType(node)]

\* htmlParser.ts lines 195-203
IsBlockElement(node) ==
    node.tagName \in
        {"address", "article", "aside", "blockquote", "details", "dialog",
         "dd", "div", "dl", "dt", "fieldset", "figcaption", "figure",
         "footer", "form", "h1", "h2", "h3", "h4", "h5", "h6", "header",
         "hgroup", "hr", "li", "main", "nav", "ol", "p", "pre", "section",
         "table", "ul"}

\* part_004 lines 148-153
ItemBullets(startIndex, endIndex, nestingLevel) ==
    [type |-> "createParagraphBullets", startIndex |-> startIndex,
     endIndex |-> endIndex,
     bulletPreset |-> IF nestingLevel = 1 THEN "BULLET_DISC_CIRCLE_SQUARE"
                      ELSE "BULLET_DISC"]

\* part_004 lines 156-165
ItemIndentation(startIndex, endIndex, nestingLevel) ==
    UpdateParagraphStyle(startIndex, endIndex,
        [indentStart |-> [magnitude |-> nestingLevel * 36, unit |-> "PT"],
         indentFirstLine |-> [magnitude |-> nestingLevel * 36, unit |-> "PT"]],
        "indentStart,indentFirstLine")

\* part_004 lines 258-293
FlushAggregator(w) ==
    LET buffer == GetBuffer(w.aggregator)
        start == GetStartIndex(w.aggregator)
        ranges == GetFormattingRanges(w.aggregator)
    IN  IF buffer = << >> THEN w
        ELSE [requests |->
                  w.requests \o <<InsertText(Str(buffer), start)>>
                  \o [r \in 1..Len(ranges) |->
                         UpdateTextStyle(start + ranges[r].startIndex,
                                         start + ranges[r].endIndex,
                                         ranges[r].style)],
              currentIndex |-> Advance(w.currentIndex, buffer),
              aggregator |-> Flush(w.aggregator)]

\* part_004 lines 109-112, 38-41: trim and flush an aggregator with text
FlushText(w) ==
    IF GetBuffer(w.aggregator) # << >>
    THEN FlushAggregator([w EXCEPT !.aggregator = TrimTrailingNewlines(@)])
    ELSE w

\* part_004 lines 137-142, 200-205: end of a list item or a block
FlushBlock(w) ==
    FlushAggregator([w EXCEPT !.aggregator =
                        TrimTrailingNewlines(MarkBlockBoundary(@))])

\* part_004 lines 84-96, 239-251
WithRange(agg, startOffset, style, config) ==
    IF DOMAIN style # {} /\ GetLength(agg) > startOffset
    THEN AddFormattingRange(agg, startOffset, GetLength(agg),
                            Spread(style, config.defaultTextStyle))
    ELSE agg

\* processNode with a parent aggregator (ProcessNode is the processNode of
\* parseHtmlToBlocks); ancestors are the tag names from below body down
RECURSIVE ProcessNodeInto(_, _, _, _), ProcessEach(_, _, _, _),
          ProcessItems(_, _, _, _)

\* a .each() over nodes with one parent aggregator
ProcessEach(nodes, ancestors, w, config) ==
    IF nodes = << >> THEN w
    ELSE LET next == ProcessNodeInto(Head(nodes), ancestors, w, config)
         IN  IF next = w THEN ProcessEach(Tail(nodes), ancestors, w, config)
             ELSE ProcessEach(Tail(nodes), ancestors, next, config)

\* part_004 lines 123-172: the list items; ancestors end with the list
ProcessItems(items, ancestors, w, config) ==
    IF items = << >> THEN w
    ELSE LET li == Head(items)
             inside == ancestors \o <<"li">>
             nestingLevel == NestingLevel(Front(ancestors))
             IsList(n) == IsTag(n, ListTags)
             NotList(n) == ~IsTag(n, ListTags)
             filled == ProcessEach(
                           SelectSeq(li.children, NotList), inside,
                           [w EXCEPT !.aggregator =
                               NewAggregator(w.currentIndex, FALSE)],
                           config)
             startIndex == filled.currentIndex
             flushed == FlushBlock(filled)
             endIndex == flushed.currentIndex
             styled ==
                 IF endIndex > startIndex
                 THEN [flushed EXCEPT !.requests = @ \o
                          <<ItemBullets(startIndex, endIndex, nestingLevel),
                            ItemIndentation(startIndex, endIndex,
                                            nestingLevel)>>]
                 ELSE flushed
             nested == ProcessEach(SelectSeq(li.children, IsList), inside,
                                   styled, config)
             after == [nested EXCEPT !.aggregator = w.aggregator]
         IN  IF after = w THEN ProcessItems(Tail(items), ancestors, w, config)
             ELSE ProcessItems(Tail(items), ancestors, after, config)

\* part_004 lines 53-253
ProcessNodeInto(node, ancestors, w, config) ==
    IF node.type = "text"
    THEN \* lines 67-98
         IF /\ "pre" \notin {ancestors[a] : a \in 1..Len(ancestors)}
            /\ Trim(node.data) = << >>
         THEN w
         ELSE [w EXCEPT !.aggregator =
                  WithRange(AppendText(@, node.data), GetLength(@),
                            ExtractTextSegment(node).style, config)]
    ELSE IF node.tagName \in ListTags
    THEN \* lines 107-175
         LET IsItem(n) == IsTag(n, {"li"})
         IN  ProcessItems(SelectSeq(node.children, IsItem),
                          ancestors \o <<node.tagName>>, FlushText(w), config)
    ELSE IF IsBlockElement(node)
    THEN \* lines 179-223
         LET HasContent(n) ==
                 \/ Trim(TextOf(n)) # << >>
                 \/ /\ IsElement(n)
                    /\ \E k \in 1..Len(n.children) : IsElement(n.children[k])
             contents == SelectSeq(node.children, HasContent)
             filled == ProcessEach(
                           contents, ancestors \o <<node.tagName>>,
                           [w EXCEPT !.aggregator =
                               NewAggregator(w.currentIndex,
                                             node.tagName = "pre")],
                           config)
             startIndex == filled.currentIndex
             flushed == FlushBlock(filled)
             endIndex == flushed.currentIndex
         IN  IF contents = << >> THEN w
             ELSE [requests |-> flushed.requests \o
                       <<UpdateParagraphStyle(startIndex, endIndex,
                             Spread(GetParagraphStyle(node),
                                    config.defaultParagraphStyle), "*")>>,
                   currentIndex |-> flushed.currentIndex,
                   aggregator |-> w.aggregator]
    ELSE \* lines 225-252
         LET segment == ExtractTextSegment(node)
             startOffset == GetLength(w.aggregator)
             inner ==
                 IF node.children # << >>
                 THEN ProcessEach(node.children,
                                  ancestors \o <<node.tagName>>, w, config)
                 ELSE IF segment.text # << >>
                 THEN [w EXCEPT !.aggregator = AppendText(@, segment.text)]
                 ELSE w
         IN  [inner EXCEPT !.aggregator =
                 WithRange(@, startOffset, segment.style, config)]

\* part_004 lines 24-41: the walk over the contents of body
WalkDocument(document, config) ==
    FlushText(ProcessEach(document.children, << >>,
                          [requests |-> << >>,
                           currentIndex |-> NewIndexManager,
                           aggregator |->
                               NewAggregator(NewIndexManager, FALSE)],
                          config))

InitRequests ==
    /\ \/ html = String(<< >>) /\ body = EmptyBody
       \/ body \in WalkBodies /\ html = String(InnerHtml(body, 1))
    /\ outcome = NoInfo
    /\ pc = "request"
    /\ childPos = 0 /\ parser = NoInfo
    /\ blocks = << >> /\ pos = 1 /\ requests = << >> /\ currentIndex = 1
    /\ tableStartIndex = NoInfo /\ tableInitialized = FALSE /\ maxColumn = 0
    /\ currentListGroup = [startIndex |-> 0, endIndex |-> 0,
                           ordered |-> FALSE, hasItems |-> FALSE]
    /\ aggregator = NoInfo /\ history = NoInfo

\* part_004 lines 14-48: htmlToGDocRequests(html, config)
HtmlToGDocRequestsAggregated ==
    /\ pc = "request"
    /\ \E config \in Configs, fault \in Faults :
           IF html.value = << >>
           THEN /\ outcome' = Return(<< >>)
                /\ UNCHANGED <<requests, currentIndex, aggregator>>
           ELSE IF fault = "none"
           THEN LET walked == WalkDocument(body, config)
                IN  /\ requests' = walked.requests
                    /\ currentIndex' = walked.currentIndex
                    /\ aggregator' = walked.aggregator
                    /\ outcome' = Return(walked.requests)
           ELSE /\ outcome' =
                       Throw("ConversionError",
                             IF fault = "Error"
                             THEN "Failed to convert HTML to Google Docs requests: message"
                             ELSE "Failed to convert HTML to Google Docs requests: Unknown error")
                /\ UNCHANGED <<requests, currentIndex, aggregator>>
    /\ pc' = "requested"
    /\ UNCHANGED <<blocks, pos, tableStartIndex, tableInitialized, maxColumn,
                   currentListGroup, parseVars, html, history>>

NextRequests == HtmlToGDocRequestsAggregated

SpecRequests == InitRequests /\ [][NextRequests]_vars

Requested == pc = "requested" /\ outcome.kind = "return"

\* C30: every insertText of the aggregator-based htmlToGDocRequests is at
\* 1 + the total length of the texts of the insertText requests before it,
\* the index the IndexManager has reached.
C30_InsertAtCursor ==
    Requested =>
        \A p \in 1..Len(requests) :
            requests[p].type = "insertText" =>
                requests[p].index = 1 + InsertedBefore(p)

====
